---- MODULE Spec2Model ----
(***************************************************************************)
(* bun-doc-mcp: documentation catalog, full-text store, result cache and   *)
(* the search worker.  Strings are sequences of one-character strings, so  *)
(* that prefix tests, suffix stripping, LIKE matching and query cleaning   *)
(* are computed character by character as the TypeScript does.             *)
(***************************************************************************)
EXTENDS Integers, Sequences, FiniteSets, TLC

VARIABLES
  nav,              \* the navigation files of DOCS_DIR: docs.json and nav.ts, each absent or [ok, ...]
  dl,               \* initializeDocsDir: position, candidates tried, state of the docs directory
  fs,               \* paths of the regular files below DOCS_DIR
  unreadable,       \* files whose Bun.file(p).text() rejects (EACCES, EISDIR, ...)
  db,               \* search.db: [exists, version, rows]
  dbAtStart,        \* history: search.db as the process found it
  PAGE_MAP,         \* result of parseNavigation: sequence of [slug, info]
  RESOURCE_INDEX,   \* insertion-ordered Map uri -> IndexedResource
  needsFtsRebuild,  \* local of buildResourceIndex
  rowsAtRebuild,    \* history: rows of the store when the rebuild began
  pc,               \* position of the top-level module code of index.ts
  cursor,           \* index of the next PAGE_MAP entry of the navigation pass
  walk,             \* files (or directories) a find listed and the loop has not visited yet
  lastCall,         \* the latest tool call and the result its handler returned
  cache,            \* SimpleCache.cache: set of [key, value, expiry]
  now,              \* Date.now()
  lastSet,          \* history: per key, the latest set since the latest clear
  cacheOut,         \* the latest SimpleCache operation or cached search and what it returned
  wdb,              \* worker: the module variable db (null or the rows of the opened store)
  wmsg,             \* worker: the latest message onmessage handled
  wreply,           \* worker: the messages posted while handling the latest message
  engineQueries     \* history: number of statements the latest search ran on the store

vars == <<nav, dl, fs, unreadable, db, dbAtStart, PAGE_MAP, RESOURCE_INDEX, needsFtsRebuild, rowsAtRebuild,
          pc, cursor, walk, lastCall, cache, now, lastSet, cacheOut, wdb, wmsg,
          wreply, engineQueries>>

mainVars == <<nav, dl, fs, unreadable, db, dbAtStart, PAGE_MAP, RESOURCE_INDEX, needsFtsRebuild, rowsAtRebuild,
              pc, cursor, walk, lastCall>>
cacheVars == <<cache, now, lastSet, cacheOut>>
workerVars == <<wdb, wmsg, wreply, engineQueries>>

----------------------------------------------------------------------------
\* String helpers, after the String.prototype methods the code uses

\* s.startsWith(p)
StartsWith(s, p) == Len(p) <= Len(s) /\ SubSeq(s, 1, Len(p)) = p

\* s.endsWith(suf)
EndsWith(s, suf) == Len(suf) <= Len(s) /\ SubSeq(s, Len(s) - Len(suf) + 1, Len(s)) = suf

\* s.indexOf(pat), 1-based; 0 when pat does not occur
IndexOf(s, pat) ==
  LET hits == {i \in 1..(Len(s) - Len(pat) + 1) : SubSeq(s, i, i + Len(pat) - 1) = pat}
  IN IF hits = {} THEN 0 ELSE CHOOSE i \in hits : \A j \in hits : i <= j

\* s.replace(pat, '') with a string pattern: removes the first occurrence only
RemoveFirst(s, pat) ==
  LET i == IndexOf(s, pat)
  IN IF i = 0 \/ pat = <<>> THEN s
     ELSE SubSeq(s, 1, i - 1) \o SubSeq(s, i + Len(pat), Len(s))

\* s.slice(0, n) for 0 <= n
Take(s, n) == SubSeq(s, 1, IF n < Len(s) THEN n ELSE Len(s))

\* s.split('/').pop()
RECURSIVE LastSegment(_)
LastSegment(s) ==
  LET i == IndexOf(s, <<"/">>)
  IN IF i = 0 THEN s ELSE LastSegment(SubSeq(s, i + 1, Len(s)))

UPPER == <<"A","B","C","D","E","F","G","H","I","J","K","L","M",
           "N","O","P","Q","R","S","T","U","V","W","X","Y","Z">>
LOWER == <<"a","b","c","d","e","f","g","h","i","j","k","l","m",
           "n","o","p","q","r","s","t","u","v","w","x","y","z">>

UpperChars == {UPPER[i] : i \in 1..Len(UPPER)}
LowerChars == {LOWER[i] : i \in 1..Len(LOWER)}

FoldTable == [c \in UpperChars |-> LOWER[CHOOSE i \in 1..Len(UPPER) : UPPER[i] = c]]
UpTable == [c \in LowerChars |-> UPPER[CHOOSE i \in 1..Len(LOWER) : LOWER[i] = c]]

\* c.toLowerCase() / c.toUpperCase() on one ASCII character
FoldChar(c) == IF c \in UpperChars THEN FoldTable[c] ELSE c

UpChar(c) == IF c \in LowerChars THEN UpTable[c] ELSE c

Fold(s) == [i \in 1..Len(s) |-> FoldChar(s[i])]

IsWordChar(c) == c \in LowerChars \/ c \in UpperChars

IsSpace(c) == c \in {" ", "\n", "\t"}

\* all orders in which a listing can return the members of S
Orders(S) == {q \in [1..Cardinality(S) -> S] : \A i, j \in 1..Cardinality(S) : q[i] = q[j] => i = j}

DIGITS == {"0","1","2","3","4","5","6","7","8","9"}

IsAlnum(c) == IsWordChar(c) \/ c \in DIGITS

----------------------------------------------------------------------------
\* Program constants and fixed strings

DEFAULT_SEARCH_LIMIT == 30
SCHEMA_VERSION == 1

SCHEME == <<"b","u","n","c","u","m","e","n","t",":","/","/">>
MD == <<".","m","d">>
MDX == <<".","m","d","x">>
GUIDES == <<"g","u","i","d","e","s">>
ECOSYSTEM == <<"e","c","o","s","y","s","t","e","m">>
DOCS_DIR == <<"/","d">>

\* path.join(a, b) for a relative b without dot segments
Join(a, b) == a \o <<"/">> \o b

----------------------------------------------------------------------------
\* The documentation tree the model runs on: every file that can exist, with
\* its content.  fs is a subset of these paths.

FileA_md == Join(DOCS_DIR, <<"a">> \o MD)
FileA_mdx == Join(DOCS_DIR, <<"a">> \o MDX)
FileG_b_md == Join(DOCS_DIR, Join(GUIDES, <<"b">> \o MD))
FileG_b_c_md == Join(DOCS_DIR, Join(GUIDES, Join(<<"b">>, <<"c">> \o MD)))
FileE_e_md == Join(DOCS_DIR, Join(ECOSYSTEM, <<"e">> \o MD))

Content(p) ==
  CASE p = FileA_md -> <<"a","b"," ","a","b">>
    [] p = FileA_mdx -> <<"b", ">", ">", ">">>
    [] p = FileG_b_md -> <<"A","b"," ","b">>
    [] p = FileG_b_c_md -> <<"b"," ","a">>
    [] p = FileE_e_md -> <<"-","-","-","\n","n","a","m","e",":"," ","E","\n","-","-","-","\n","a">>
    [] OTHER -> <<>>

FsChoices ==
  { {FileA_md},
    {FileA_md, FileA_mdx, FileE_e_md},
    {FileA_md, FileG_b_md},
    {FileA_mdx, FileG_b_md, FileG_b_c_md},
    {FileA_md, FileG_b_md, FileG_b_c_md, FileE_e_md} }

\* existsSync(p): a regular file, or a directory that holds one
ExistsSync(files, p) == p \in files \/ \E f \in files : StartsWith(f, p \o <<"/">>)

\* find dir -type f -name "*.ext": the regular files below dir with that suffix
FindFiles(files, dir, ext) == {f \in files : StartsWith(f, dir \o <<"/">>) /\ EndsWith(f, ext)}

\* find dir -mindepth 1 -type d: the directories strictly below dir
FindDirs(files, dir) ==
  {d \in UNION {{SubSeq(f, 1, i - 1) : i \in {j \in 1..Len(f) : f[j] = "/"}} : f \in files} :
     StartsWith(d, dir \o <<"/">>)}

----------------------------------------------------------------------------
\* Full-text store: table docs_fts of search.db and the statements run on it

\* one row of docs_fts
Row(uri, title, category, summary, content) ==
  [uri |-> uri, title |-> title, category |-> category, summary |-> summary,
   content |-> content]

\* tokenize='porter unicode61': maximal runs of letters and digits, case folded
\* (the stemmer leaves the words of the modelled texts as they are)
RECURSIVE TokensFrom(_, _, _)
TokensFrom(s, i, cur) ==
  IF i > Len(s) THEN (IF cur = <<>> THEN <<>> ELSE <<cur>>)
  ELSE IF IsAlnum(s[i]) THEN TokensFrom(s, i + 1, Append(cur, FoldChar(s[i])))
  ELSE (IF cur = <<>> THEN <<>> ELSE <<cur>>) \o TokensFrom(s, i + 1, <<>>)

Tokens(s) == TokensFrom(s, 1, <<>>)

\* the strings between double quotes of an FTS5 query, each tokenized to a phrase
RECURSIVE QuotedFrom(_, _, _, _)
QuotedFrom(q, i, inside, cur) ==
  IF i > Len(q) THEN <<>>
  ELSE IF q[i] = "\""
       THEN (IF inside THEN <<Tokens(cur)>> \o QuotedFrom(q, i + 1, FALSE, <<>>)
             ELSE QuotedFrom(q, i + 1, TRUE, <<>>))
       ELSE QuotedFrom(q, i + 1, inside, IF inside THEN Append(cur, q[i]) ELSE <<>>)

FtsPhrases(q) == QuotedFrom(q, 1, FALSE, <<>>)

\* number of places of the tokenized column where the phrase occurs
PhraseCount(toks, phrase) ==
  IF phrase = <<>> THEN 0
  ELSE Cardinality({i \in 1..(Len(toks) - Len(phrase) + 1) :
                      SubSeq(toks, i, i + Len(phrase) - 1) = phrase})

RECURSIVE TokenHits(_, _)
TokenHits(toks, phrases) ==
  IF phrases = <<>> THEN 0
  ELSE PhraseCount(toks, Head(phrases)) + TokenHits(toks, Tail(phrases))

\* occurrences of the phrases in one column
ColumnHits(col, phrases) == TokenHits(Tokens(col), phrases)

\* occurrences of the phrases in each column of a row
RowHits(row, phrases) ==
  [uri |-> ColumnHits(row.uri, phrases), title |-> ColumnHits(row.title, phrases),
   category |-> ColumnHits(row.category, phrases),
   summary |-> ColumnHits(row.summary, phrases),
   content |-> ColumnHits(row.content, phrases)]

\* docs_fts MATCH '"p1" OR "p2" ...': some phrase occurs in some column
FtsMatch(h) == h.uri + h.title + h.category + h.summary + h.content > 0

\* bm25(docs_fts, 1.0, 2.0, 1.5, 3.0, 1.0): lower is better.  The model keeps the
\* column weights (doubled, to stay in the integers) and the term frequency.
Bm25(h) == 0 - (2 * h.uri + 4 * h.title + 3 * h.category + 6 * h.summary + 2 * h.content)

\* x LIKE pat: % any run, _ any one character, letters compared without case
RECURSIVE LikeMatch(_, _)
LikeMatch(pat, s) ==
  IF pat = <<>> THEN s = <<>>
  ELSE IF Head(pat) = "%"
       THEN LikeMatch(Tail(pat), s) \/ (s # <<>> /\ LikeMatch(pat, Tail(s)))
       ELSE /\ s # <<>>
            /\ (Head(pat) = "_" \/ FoldChar(Head(pat)) = FoldChar(Head(s)))
            /\ LikeMatch(Tail(pat), Tail(s))

\* ORDER BY score: ascending, rows of equal score in rowid order
RECURSIVE OrderByScore(_, _)
OrderByScore(score, S) ==
  IF S = {} THEN <<>>
  ELSE LET m == CHOOSE i \in S : \A j \in S :
                  score[i] < score[j] \/ (score[i] = score[j] /\ i <= j)
       IN <<m>> \o OrderByScore(score, S \ {m})

\* the positions <<first, last>> of the tokens of s, in order
RECURSIVE TokenSpansFrom(_, _, _)
TokenSpansFrom(s, i, start) ==
  IF i > Len(s) THEN (IF start = 0 THEN <<>> ELSE <<<<start, Len(s)>>>>)
  ELSE IF IsAlnum(s[i]) THEN TokenSpansFrom(s, i + 1, IF start = 0 THEN i ELSE start)
  ELSE (IF start = 0 THEN <<>> ELSE <<<<start, i - 1>>>>) \o TokenSpansFrom(s, i + 1, 0)

\* the positions of col that lie inside an instance of one of the phrases
Highlighted(col, phrases) ==
  LET toks == Tokens(col)
      spans == TokenSpansFrom(col, 1, 0)
  IN {p \in 1..Len(col) :
        \E q \in 1..Len(phrases) :
          /\ phrases[q] # <<>>
          /\ \E i \in 1..(Len(toks) - Len(phrases[q]) + 1) :
               /\ SubSeq(toks, i, i + Len(phrases[q]) - 1) = phrases[q]
               /\ spans[i][1] <= p
               /\ p <= spans[i + Len(phrases[q]) - 1][2]}

\* col with open before and close after every highlighted run
RECURSIVE MarkFrom(_, _, _, _, _)
MarkFrom(col, hl, i, open, close) ==
  IF i > Len(col) THEN <<>>
  ELSE (IF i \in hl /\ (i - 1) \notin hl THEN open ELSE <<>>)
       \o <<col[i]>>
       \o (IF i \in hl /\ (i + 1) \notin hl THEN close ELSE <<>>)
       \o MarkFrom(col, hl, i + 1, open, close)

\* snippet(docs_fts, 4, '>>>', '<<<', '...', 32) on a column of at most 32 tokens:
\* the whole text, every phrase instance between the markers
FtsSnippet(col, phrases, open, close) == MarkFrom(col, Highlighted(col, phrases), 1, open, close)

\* SELECT uri, title, bm25(...) AS score, snippet(...) AS snippet FROM docs_fts
\*   WHERE docs_fts MATCH ? [AND uri LIKE ?] ORDER BY score LIMIT ?
FtsSelect(rows, match, withLike, like, limit) ==
  LET phrases == FtsPhrases(match)
      h == [i \in 1..Len(rows) |-> RowHits(rows[i], phrases)]
      score == [i \in 1..Len(rows) |-> Bm25(h[i])]
      hits == {i \in 1..Len(rows) :
                 FtsMatch(h[i]) /\ (withLike => LikeMatch(like, rows[i].uri))}
      order == Take(OrderByScore(score, hits), limit)
  IN [k \in 1..Len(order) |->
        [uri |-> rows[order[k]].uri, title |-> rows[order[k]].title,
         score |-> score[order[k]],
         snippet |-> FtsSnippet(rows[order[k]].content, phrases,
                                <<">", ">", ">">>, <<"<", "<", "<">>)]]

----------------------------------------------------------------------------
\* sanitizeFtsQuery and searchDocuments

RESERVED == {"\"", ":", "*", "^", "(", ")"}

\* query.split(/\s+/).filter((term) => term.length > 0)
RECURSIVE SplitWsFrom(_, _, _)
SplitWsFrom(s, i, cur) ==
  IF i > Len(s) THEN (IF cur = <<>> THEN <<>> ELSE <<cur>>)
  ELSE IF ~IsSpace(s[i]) THEN SplitWsFrom(s, i + 1, Append(cur, s[i]))
  ELSE (IF cur = <<>> THEN <<>> ELSE <<cur>>) \o SplitWsFrom(s, i + 1, <<>>)

SplitWs(s) == SplitWsFrom(s, 1, <<>>)

\* a cleaning that leaves the colon in the term
StripReserved_keepsColon(term) == SelectSeq(term, LAMBDA c : c \notin RESERVED \ {":"})

\* term.replace(/[":*^()]/g, '')
StripReserved(term) == SelectSeq(term, LAMBDA c : c \notin RESERVED)

RECURSIVE JoinOr(_)
JoinOr(terms) ==
  IF terms = <<>> THEN <<>>
  ELSE IF Len(terms) = 1 THEN Head(terms)
  ELSE Head(terms) \o <<" ","O","R"," ">> \o JoinOr(Tail(terms))

sanitizeFtsQuery(query) ==
  LET terms == SplitWs(query)
      cleaned == [i \in 1..Len(terms) |-> StripReserved(terms[i])]
      kept == SelectSeq(cleaned, LAMBDA t : t # <<>>)
  IN JoinOr([i \in 1..Len(kept) |-> <<"\"">> \o kept[i] \o <<"\"">>])

\* s.replace(/pat/g, by): every occurrence, leftmost first, none overlapping
RECURSIVE ReplaceAll(_, _, _)
ReplaceAll(s, pat, by) ==
  IF Len(s) < Len(pat) THEN s
  ELSE IF SubSeq(s, 1, Len(pat)) = pat
       THEN by \o ReplaceAll(SubSeq(s, Len(pat) + 1, Len(s)), pat, by)
       ELSE <<Head(s)>> \o ReplaceAll(Tail(s), pat, by)

\* searchDocuments: the result list, and the number of statements it ran on the
\* store.  Scores are negated; Math.round(x * 100) / 100 leaves the model's
\* integer scores as they are.
searchDocuments(rows, query, searchPath, limit) ==
  LET sanitizedQuery == sanitizeFtsQuery(query)
  IN IF sanitizedQuery = <<>> THEN [results |-> <<>>, statements |-> 0]
     ELSE LET found == FtsSelect(rows, sanitizedQuery, searchPath # <<>>,
                                 searchPath \o <<"%">>, limit)
          IN [results |-> [k \in 1..Len(found) |->
                             [uri |-> SCHEME \o found[k].uri, title |-> found[k].title,
                              score |-> 0 - found[k].score,
                              snippet |-> ReplaceAll(ReplaceAll(found[k].snippet,
                                              <<">", ">", ">">>, <<"*", "*">>),
                                            <<"<", "<", "<">>, <<"*", "*">>)]],
              statements |-> 1]

----------------------------------------------------------------------------
\* parseFrontmatter, extractSummary, indexDocument, clearSearchIndex

\* s.split('\n')
RECURSIVE LinesFrom(_, _, _)
LinesFrom(s, i, cur) ==
  IF i > Len(s) THEN <<cur>>
  ELSE IF s[i] = "\n" THEN <<cur>> \o LinesFrom(s, i + 1, <<>>)
  ELSE LinesFrom(s, i + 1, Append(cur, s[i]))

Lines(s) == LinesFrom(s, 1, <<>>)

\* s.trim() and its two halves
RECURSIVE TrimStart(_)
TrimStart(s) == IF s # <<>> /\ IsSpace(Head(s)) THEN TrimStart(Tail(s)) ELSE s

RECURSIVE TrimEnd(_)
TrimEnd(s) ==
  IF s # <<>> /\ IsSpace(s[Len(s)]) THEN TrimEnd(SubSeq(s, 1, Len(s) - 1)) ELSE s

Trim(s) == TrimEnd(TrimStart(s))

\* line.match(/^(\w+):\s*(.*)$/): <<key, value>>, or <<>> when the line does not match
FrontmatterLine(line) ==
  LET i == IndexOf(line, <<":">>)
  IN IF i <= 1 THEN <<>>
     ELSE IF \E k \in 1..(i - 1) : ~(IsAlnum(line[k]) \/ line[k] = "_") THEN <<>>
     ELSE <<SubSeq(line, 1, i - 1), TrimStart(SubSeq(line, i + 1, Len(line)))>>

\* the value the loop leaves in frontmatter[key]: the last matching line before the
\* closing '---' that has this key and a non-empty value; <<>> stands for undefined
RECURSIVE FrontmatterScan(_, _, _, _)
FrontmatterScan(lines, i, key, found) ==
  IF i > Len(lines) \/ lines[i] = <<"-","-","-">> THEN found
  ELSE LET m == FrontmatterLine(lines[i])
       IN FrontmatterScan(lines, i + 1, key,
            IF m # <<>> /\ m[1] = key /\ m[2] # <<>> THEN m[2] ELSE found)

parseFrontmatter(content) ==
  LET lines == Lines(content)
  IN IF lines[1] # <<"-","-","-">> THEN [name |-> <<>>, description |-> <<>>]
     ELSE [name |-> FrontmatterScan(lines, 2, <<"n","a","m","e">>, <<>>),
           description |-> FrontmatterScan(lines, 2, <<"d","e","s","c","r","i","p","t","i","o","n">>, <<>>)]

\* text.replace(/\n+/g, ' ')
RECURSIVE CollapseNewlines(_)
CollapseNewlines(s) ==
  IF s = <<>> THEN <<>>
  ELSE IF Head(s) = "\n"
       THEN (IF Len(s) > 1 /\ s[2] = "\n" THEN CollapseNewlines(Tail(s))
             ELSE <<" ">> \o CollapseNewlines(Tail(s)))
       ELSE <<Head(s)>> \o CollapseNewlines(Tail(s))

\* s.lastIndexOf(pat), 1-based; 0 when pat does not occur
LastIndexOf(s, pat) ==
  LET hits == {i \in 1..(Len(s) - Len(pat) + 1) : SubSeq(s, i, i + Len(pat) - 1) = pat}
  IN IF hits = {} THEN 0 ELSE CHOOSE i \in hits : \A j \in hits : j <= i

\* extractSummary(content, 300).  The Markdown-stripping replacements (headers, code,
\* links, emphasis, bullets) find nothing in the modelled texts, which hold letters,
\* digits, spaces, newlines and front matter only.
extractSummary(content) ==
  LET endIdx == IF StartsWith(content, <<"-","-","-">>)
                THEN IndexOf(SubSeq(content, 4, Len(content)), <<"-","-","-">>) ELSE 0
      body == IF endIdx = 0 THEN content ELSE SubSeq(content, endIdx + 6, Len(content))
      text == Trim(CollapseNewlines(body))
      truncated == Take(text, 300)
      lastSentence == LastIndexOf(truncated, <<"."," ">>)
  IN IF Len(text) > 300
     THEN (IF lastSentence - 1 > 150 THEN Take(truncated, lastSentence)
           ELSE truncated \o <<".",".",".">>)
     ELSE text

\* indexDocument: INSERT INTO docs_fts (uri, title, category, summary, content)
indexDocument(rows, uri, title, category, content) ==
  Append(rows, Row(uri, title, category, extractSummary(content), content))

\* clearSearchIndex: DELETE FROM docs_fts
clearSearchIndex(rows) == <<>>

----------------------------------------------------------------------------
\* The catalog RESOURCE_INDEX: a Map, kept as the sequence of its values in
\* insertion order; <<>> as filePath stands for an absent filePath

Resource(uri, name, description, mimeType, filePath, isDirectory) ==
  [uri |-> uri, name |-> name, description |-> description, mimeType |-> mimeType,
   filePath |-> filePath, isDirectory |-> isDirectory]

MapHas(m, uri) == \E i \in 1..Len(m) : m[i].uri = uri

MapGet(m, uri) == m[CHOOSE i \in 1..Len(m) : m[i].uri = uri]

\* Map.prototype.set: a new key goes last, an existing key keeps its place
MapSet(m, r) ==
  IF MapHas(m, r.uri)
  THEN [i \in 1..Len(m) |-> IF m[i].uri = r.uri THEN r ELSE m[i]]
  ELSE Append(m, r)

\* uri.replace('buncument://', '')
SlugOf(uri) == RemoveFirst(uri, SCHEME)

\* filePath.replace(/\.mdx?$/, '')
StripMdExt(p) ==
  IF EndsWith(p, MDX) THEN SubSeq(p, 1, Len(p) - 4)
  ELSE IF EndsWith(p, MD) THEN SubSeq(p, 1, Len(p) - 3)
  ELSE p

----------------------------------------------------------------------------
\* Start-up of index.ts: initializeSearchDatabase, buildResourceIndex, connect

Page(slug, title, description, divider, disabled, href) ==
  [slug |-> slug, title |-> title, description |-> description, divider |-> divider,
   disabled |-> disabled, href |-> href]

OldRow == Row(<<"o","l","d">>, <<"O">>, <<>>, <<"a">>, <<"a">>)

\* the navigation files once parseNavigation has returned (PAGE_MAP is its result)
NavConsumed == [docsJson |-> <<>>, navTs |-> <<>>, loaded |-> {}, error |-> <<>>]

\* initializeDocsDir has returned DOCS_DIR
DocsReady ==
  [pc |-> "ready", version |-> <<"1">>, i |-> 1, lastError |-> <<>>, tried |-> <<>>,
   ok |-> 0, dir |-> "nav", calls |-> 0, again |-> 0]

\* search.db as start-up finds it: absent; current and empty; current with rows of
\* an earlier build; rows under an older schema marker; rows under a newer one
DbChoices ==
  { [exists |-> FALSE, version |-> 0, rows |-> <<>>],
    [exists |-> TRUE, version |-> SCHEMA_VERSION, rows |-> <<>>],
    [exists |-> TRUE, version |-> SCHEMA_VERSION, rows |-> <<OldRow>>],
    [exists |-> TRUE, version |-> 0, rows |-> <<OldRow>>],
    [exists |-> TRUE, version |-> SCHEMA_VERSION + 1, rows |-> <<OldRow>>] }

NoCall == [op |-> "none"]

\* parseNavigation.  nav.docsJson
\* and nav.navTs are <<>> when the file is absent, else <<[ok, tabs, cause]>> and
\* <<[ok, items, cause]>>; ok is FALSE when reading, parsing or walking the file
\* throws, and cause is then what was thrown: [isError, text], text being the
\* message of an Error and the string form of any other value.  nav.loaded is the set of navigation files parseNavigation has
\* opened (history), nav.error the message of the error it threw (<<>>: none).

\* s.split(c)
RECURSIVE SplitOn(_, _)
SplitOn(s, c) ==
  LET i == IndexOf(s, <<c>>)
  IN IF i = 0 THEN <<s>> ELSE <<SubSeq(s, 1, i - 1)>> \o SplitOn(SubSeq(s, i + 1, Len(s)), c)

\* parts.join(' ')
RECURSIVE JoinSpace(_)
JoinSpace(parts) ==
  IF parts = <<>> THEN <<>>
  ELSE IF Len(parts) = 1 THEN parts[1]
  ELSE parts[1] \o <<" ">> \o JoinSpace(Tail(parts))

\* w.charAt(0).toUpperCase() + w.slice(1)
Capitalize(w) == IF w = <<>> THEN <<>> ELSE <<UpChar(w[1])>> \o Tail(w)

\* the title parseNavigation derives from a docs.json slug
TitleOfSlug(slug) ==
  LET parts == SplitOn(slug, "/")
      lastPart == IF parts[Len(parts)] # <<>> THEN parts[Len(parts)] ELSE slug
      words == SplitOn(lastPart, "-")
  IN JoinSpace([i \in 1..Len(words) |-> Capitalize(words[i])])

\* pageMap.set(slug, info): a new slug goes last, an existing slug keeps its place
PageMapSet(m, page) ==
  IF \E i \in 1..Len(m) : m[i].slug = page.slug
  THEN [i \in 1..Len(m) |-> IF m[i].slug = page.slug THEN page ELSE m[i]]
  ELSE Append(m, page)

\* the loop over group.pages
RECURSIVE DocsJsonPages(_, _, _)
DocsJsonPages(pages, divider, pageMap) ==
  IF pages = <<>> THEN pageMap
  ELSE LET pagePath == Head(pages)
           slug == IF pagePath # <<>> /\ Head(pagePath) = "/" THEN Tail(pagePath) ELSE pagePath
       IN DocsJsonPages(Tail(pages), divider,
            PageMapSet(pageMap, Page(slug, TitleOfSlug(slug), <<>>, divider, FALSE, <<>>)))

\* the loop over tab.groups
RECURSIVE DocsJsonGroups(_, _, _)
DocsJsonGroups(groups, tab, pageMap) ==
  IF groups = <<>> THEN pageMap
  ELSE DocsJsonGroups(Tail(groups), tab,
         DocsJsonPages(Head(groups).pages, tab \o <<" ", "/", " ">> \o Head(groups).group, pageMap))

\* the loop over docsJson.navigation.tabs
RECURSIVE DocsJsonTabs(_, _)
DocsJsonTabs(tabs, pageMap) ==
  IF tabs = <<>> THEN pageMap
  ELSE DocsJsonTabs(Tail(tabs), DocsJsonGroups(Head(tabs).groups, Head(tabs).tab, pageMap))

NavItem(type, title, slug, description, disabled, href) ==
  [type |-> type, title |-> title, slug |-> slug, description |-> description,
   disabled |-> disabled, href |-> href]

\* a loop in which a divider never changes the current category
RECURSIVE NavTsLoop_ignoresDividers(_, _, _)
NavTsLoop_ignoresDividers(items, currentDivider, pageMap) ==
  IF items = <<>> THEN pageMap
  ELSE LET item == Head(items)
       IN IF item.type = "page"
          THEN NavTsLoop_ignoresDividers(Tail(items), currentDivider,
                 PageMapSet(pageMap, Page(item.slug, item.title, item.description,
                                          currentDivider, item.disabled, item.href)))
          ELSE NavTsLoop_ignoresDividers(Tail(items), currentDivider, pageMap)

\* the loop over nav.items of the nav.ts branch
RECURSIVE NavTsLoop(_, _, _)
NavTsLoop(items, currentDivider, pageMap) ==
  IF items = <<>> THEN pageMap
  ELSE LET item == Head(items)
       IN IF item.type = "divider"
          THEN NavTsLoop(Tail(items), item.title, pageMap)
          ELSE IF item.type = "page"
          THEN NavTsLoop(Tail(items), currentDivider,
                 PageMapSet(pageMap, Page(item.slug, item.title, item.description,
                                          currentDivider, item.disabled, item.href)))
          ELSE NavTsLoop(Tail(items), currentDivider, pageMap)

\* an error that leaves the file unnamed
ParseError_noFile(name, cause) ==
  IF cause.isError
  THEN <<"F","a","i","l","e","d"," ","t","o"," ","p","a","r","s","e",":"," ">> \o cause.text
  ELSE <<"F","a","i","l","e","d"," ","t","o"," ","p","a","r","s","e">>

\* the error parseNavigation rethrows for a failure on file name
ParseError(name, cause) ==
  IF cause.isError
  THEN <<"F","a","i","l","e","d"," ","t","o"," ","p","a","r","s","e"," ">> \o name \o <<":", " ">> \o cause.text
  ELSE <<"F","a","i","l","e","d"," ","t","o"," ","p","a","r","s","e"," ">> \o name

DOCS_JSON == <<"d","o","c","s",".","j","s","o","n">>
NAV_TS == <<"n","a","v",".","t","s">>

\* a parse that turns to nav.ts when docs.json cannot be parsed
ParseNavigation_fallsBack ==
  /\ pc = "parse"
  /\ IF nav.docsJson # <<>> /\ nav.docsJson[1].ok
     THEN /\ PAGE_MAP' = DocsJsonTabs(nav.docsJson[1].tabs, <<>>)
          /\ pc' = "build"
          /\ nav' = [nav EXCEPT !.loaded = {DOCS_JSON}]
     ELSE IF nav.navTs # <<>>
     THEN IF nav.navTs[1].ok
          THEN /\ PAGE_MAP' = NavTsLoop(nav.navTs[1].items, <<>>, <<>>)
               /\ pc' = "build"
               /\ nav' = [nav EXCEPT !.loaded = (IF nav.docsJson # <<>> THEN {DOCS_JSON} ELSE {})
                                                  \cup {NAV_TS}]
          ELSE /\ pc' = "crashed"
               /\ nav' = [nav EXCEPT !.loaded = {NAV_TS},
                                     !.error = <<ParseError(NAV_TS, nav.navTs[1].cause)>>]
               /\ UNCHANGED PAGE_MAP
     ELSE PAGE_MAP' = <<>> /\ pc' = "build" /\ UNCHANGED nav
  /\ UNCHANGED <<dl, dbAtStart, fs, unreadable, db, RESOURCE_INDEX, needsFtsRebuild,
                 rowsAtRebuild, cursor, walk, lastCall>>

\* parseNavigation: docs.json when it exists, else nav.ts when it exists, else
\* an empty map; a failure is rethrown with the file's name and ends start-up
ParseNavigation ==
  /\ pc = "parse"
  /\ IF nav.docsJson # <<>>
     THEN IF nav.docsJson[1].ok
          THEN /\ PAGE_MAP' = DocsJsonTabs(nav.docsJson[1].tabs, <<>>)
               /\ pc' = "build"
               /\ nav' = [nav EXCEPT !.loaded = {DOCS_JSON}]
          ELSE /\ pc' = "crashed"
               /\ nav' = [nav EXCEPT !.loaded = {DOCS_JSON},
                                     !.error = <<ParseError(DOCS_JSON, nav.docsJson[1].cause)>>]
               /\ UNCHANGED PAGE_MAP
     ELSE IF nav.navTs # <<>>
     THEN IF nav.navTs[1].ok
          THEN /\ PAGE_MAP' = NavTsLoop(nav.navTs[1].items, <<>>, <<>>)
               /\ pc' = "build"
               /\ nav' = [nav EXCEPT !.loaded = {NAV_TS}]
          ELSE /\ pc' = "crashed"
               /\ nav' = [nav EXCEPT !.loaded = {NAV_TS},
                                     !.error = <<ParseError(NAV_TS, nav.navTs[1].cause)>>]
               /\ UNCHANGED PAGE_MAP
     ELSE PAGE_MAP' = <<>> /\ pc' = "build" /\ UNCHANGED nav
  /\ UNCHANGED <<dl, dbAtStart, fs, unreadable, db, RESOURCE_INDEX, needsFtsRebuild,
                 rowsAtRebuild, cursor, walk, lastCall>>

Unexpected == <<"U","n","e","x","p","e","c","t","e","d">>

\* what a file that parsed threw: nothing
NoCause == [isError |-> TRUE, text |-> <<>>]

\* the nav.ts lists of the start-ups of Spec
MainNavLists ==
  { << NavItem("divider", <<"D">>, <<>>, <<>>, FALSE, <<>>),
       NavItem("page", <<"A">>, <<"a">>, <<>>, FALSE, <<>>),
       NavItem("page", <<"B">>, Join(GUIDES, <<"b">>), <<"x">>, FALSE, <<>>) >>,
    << NavItem("page", <<"A">>, <<"a">>, <<"x">>, FALSE, <<>>),
       NavItem("page", <<"C">>, Join(GUIDES, Join(<<"b">>, <<"c">>)), <<>>, TRUE, <<>>),
       NavItem("page", <<"E">>, Join(ECOSYSTEM, <<"e">>), <<>>, FALSE,
               <<"h","t","t","p","s",":","/","/","e">>) >> }

\* the navigation files of the start-ups of Spec: a nav.ts; a docs.json that does
\* not parse, with a nav.ts beside it; a nav.ts whose evaluation throws a value
\* that is not an Error
MainNavFiles ==
  {[docsJson |-> <<>>, navTs |-> <<[ok |-> TRUE, items |-> l, cause |-> NoCause]>>,
    loaded |-> {}, error |-> <<>>] : l \in MainNavLists}
  \cup {[docsJson |-> <<[ok |-> FALSE, tabs |-> <<>>,
                         cause |-> [isError |-> TRUE, text |-> Unexpected]]>>,
         navTs |-> <<[ok |-> TRUE, cause |-> NoCause,
                      items |-> <<NavItem("page", <<"A">>, <<"a">>, <<>>, FALSE, <<>>)>>]>>,
         loaded |-> {}, error |-> <<>>],
        [docsJson |-> <<>>,
         navTs |-> <<[ok |-> FALSE, items |-> <<>>,
                      cause |-> [isError |-> FALSE, text |-> Unexpected]]>>,
         loaded |-> {}, error |-> <<>>]}

InitMain ==
  /\ nav \in MainNavFiles
  /\ dl = DocsReady
  /\ fs \in FsChoices
  /\ unreadable \in {{}} \cup {{f} : f \in fs}
  /\ db \in DbChoices
  /\ dbAtStart = db
  /\ PAGE_MAP = <<>>
  /\ RESOURCE_INDEX = <<>>
  /\ needsFtsRebuild = FALSE
  /\ rowsAtRebuild = <<>>
  /\ pc = "initDb"
  /\ cursor = 1
  /\ walk = <<>>
  /\ lastCall = NoCall

\* a start-up that rewrites the marker of a stale store and keeps its table
InitializeSearchDatabase_keepsTable ==
  /\ pc = "initDb"
  /\ db' = [exists |-> TRUE, version |-> SCHEMA_VERSION, rows |-> db.rows]
  /\ pc' = "parse"
  /\ UNCHANGED <<nav, dl, dbAtStart, fs, unreadable, PAGE_MAP, RESOURCE_INDEX, needsFtsRebuild,
                 rowsAtRebuild, cursor, walk, lastCall>>

\* initializeSearchDatabase
InitializeSearchDatabase ==
  /\ pc = "initDb"
  /\ LET needsRebuild == ~db.exists
         currentVersion == IF db.exists THEN db.version ELSE 0
     IN db' = IF needsRebuild \/ currentVersion < SCHEMA_VERSION
              THEN [exists |-> TRUE, version |-> SCHEMA_VERSION, rows |-> <<>>]
              ELSE db
  /\ pc' = "parse"
  /\ UNCHANGED <<nav, dl, dbAtStart, fs, unreadable, PAGE_MAP, RESOURCE_INDEX, needsFtsRebuild, rowsAtRebuild,
                 cursor, walk, lastCall>>

\* a start that clears and refills the store whatever it holds
BuildStart_alwaysRebuilds ==
  /\ pc = "build"
  /\ needsFtsRebuild' = TRUE
  /\ rowsAtRebuild' = db.rows
  /\ db' = [db EXCEPT !.rows = clearSearchIndex(db.rows)]
  /\ pc' = "nav"
  /\ cursor' = 1
  /\ UNCHANGED <<nav, dl, dbAtStart, fs, unreadable, PAGE_MAP, RESOURCE_INDEX, walk, lastCall>>

\* buildResourceIndex, up to the navigation loop: count the rows, clear when empty
BuildStart ==
  /\ pc = "build"
  /\ needsFtsRebuild' = (Len(db.rows) = 0)
  /\ rowsAtRebuild' = db.rows
  /\ db' = IF Len(db.rows) = 0 THEN [db EXCEPT !.rows = clearSearchIndex(db.rows)] ELSE db
  /\ pc' = "nav"
  /\ cursor' = 1
  /\ UNCHANGED <<nav, dl, dbAtStart, fs, unreadable, PAGE_MAP, RESOURCE_INDEX, walk, lastCall>>

Candidates(slug) ==
  << Join(DOCS_DIR, slug \o MD), Join(DOCS_DIR, slug \o MDX),
     Join(Join(DOCS_DIR, slug), <<"i","n","d","e","x",".","m","d">>), Join(Join(DOCS_DIR, slug), <<"i","n","d","e","x",".","m","d","x">>) >>

\* a resolution that prefers the index files
ResolveFile_lastCandidate(files, slug) ==
  LET c == Candidates(slug)
      ok == {i \in 1..Len(c) : ExistsSync(files, c[i])}
  IN IF ok = {} THEN <<>> ELSE c[CHOOSE i \in ok : \A j \in ok : i >= j]

\* the first candidate that exists, '' when none does
ResolveFile(files, slug) ==
  LET c == Candidates(slug)
      ok == {i \in 1..Len(c) : ExistsSync(files, c[i])}
  IN IF ok = {} THEN <<>> ELSE c[CHOOSE i \in ok : \A j \in ok : i <= j]

NavDescription(info) ==
  IF info.divider # <<>> /\ info.description # <<>>
  THEN info.divider \o <<" ","/"," ">> \o info.description
  ELSE IF info.description # <<>> THEN info.description ELSE info.divider

\* one iteration of the loop over PAGE_MAP
NavStep ==
  /\ pc = "nav"
  /\ cursor <= Len(PAGE_MAP)
  /\ LET info == PAGE_MAP[cursor]
         filePath == ResolveFile(fs, info.slug)
     IN IF info.disabled \/ info.href # <<>> \/ filePath = <<>>
        THEN cursor' = cursor + 1 /\ UNCHANGED <<db, RESOURCE_INDEX, pc>>
        ELSE /\ RESOURCE_INDEX' = MapSet(RESOURCE_INDEX,
                    Resource(SCHEME \o info.slug, info.title, NavDescription(info),
                             "text/markdown", filePath, FALSE))
             /\ IF ~needsFtsRebuild
                THEN cursor' = cursor + 1 /\ UNCHANGED <<db, pc>>
                ELSE IF filePath \in unreadable
                THEN pc' = "crashed" /\ UNCHANGED <<db, cursor>>
                ELSE \E insertOk \in BOOLEAN :
                       IF insertOk
                       THEN /\ db' = [db EXCEPT !.rows = indexDocument(db.rows,
                                         info.slug, info.title, info.divider,
                                         Content(filePath))]
                            /\ cursor' = cursor + 1
                            /\ pc' = pc
                       ELSE pc' = "crashed" /\ UNCHANGED <<db, cursor>>
  /\ UNCHANGED <<nav, dl, dbAtStart, fs, unreadable, PAGE_MAP, needsFtsRebuild, rowsAtRebuild, walk, lastCall>>

GuidesDir == Join(DOCS_DIR, GUIDES)
EcosystemDir == Join(DOCS_DIR, ECOSYSTEM)

\* after the navigation loop: the guides root and the two find listings
GuidesStart ==
  /\ pc = "nav"
  /\ cursor > Len(PAGE_MAP)
  /\ IF ExistsSync(fs, GuidesDir)
     THEN /\ RESOURCE_INDEX' = MapSet(RESOURCE_INDEX,
                 Resource(SCHEME \o GUIDES, <<"G","u","i","d","e","s">>, <<"A"," ","c","o","l","l","e","c","t","i","o","n">>,
                          "application/json", <<>>, TRUE))
          /\ \E md \in Orders(FindFiles(fs, GuidesDir, MD)),
                mdx \in Orders(FindFiles(fs, GuidesDir, MDX)) : walk' = md \o mdx
          /\ pc' = "guides"
     ELSE pc' = "ecoStart" /\ UNCHANGED <<RESOURCE_INDEX, walk>>
  /\ UNCHANGED <<nav, dl, dbAtStart, fs, unreadable, db, PAGE_MAP, needsFtsRebuild, rowsAtRebuild, cursor,
                 lastCall>>

\* one iteration of the loop over the guides files
GuidesFileStep ==
  /\ pc = "guides"
  /\ walk # <<>>
  /\ LET filePath == Head(walk)
         relativePath == StripMdExt(RemoveFirst(filePath, DOCS_DIR \o <<"/">>))
         content == Content(filePath)
         frontmatter == parseFrontmatter(content)
         filename == StripMdExt(LastSegment(filePath))
         firstLine == Lines(content)[1]
         name == IF frontmatter.name # <<>> THEN frontmatter.name ELSE filename
         description == IF frontmatter.description # <<>> THEN frontmatter.description
                        ELSE Take(firstLine, 100)
     IN IF filePath \in unreadable
        THEN pc' = "crashed" /\ UNCHANGED <<db, RESOURCE_INDEX, walk>>
        ELSE /\ RESOURCE_INDEX' = MapSet(RESOURCE_INDEX,
                    Resource(SCHEME \o relativePath, name, description, "text/markdown",
                             filePath, FALSE))
             /\ IF ~needsFtsRebuild
                THEN walk' = Tail(walk) /\ UNCHANGED <<db, pc>>
                ELSE \E insertOk \in BOOLEAN :
                       IF insertOk
                       THEN /\ db' = [db EXCEPT !.rows = indexDocument(db.rows,
                                         relativePath, name, <<"G","u","i","d","e","s">>, content)]
                            /\ walk' = Tail(walk)
                            /\ pc' = pc
                       ELSE pc' = "crashed" /\ UNCHANGED <<db, walk>>
  /\ UNCHANGED <<nav, dl, dbAtStart, fs, unreadable, PAGE_MAP, needsFtsRebuild, rowsAtRebuild, cursor, lastCall>>

\* RESOURCE_INDEX.set for each listed directory, in the order of the listing
RECURSIVE SetDirectories(_, _)
SetDirectories(m, dirs) ==
  IF dirs = <<>> THEN m
  ELSE SetDirectories(
         MapSet(m, Resource(SCHEME \o RemoveFirst(Head(dirs), DOCS_DIR \o <<"/">>),
                            LastSegment(Head(dirs)), <<"D","i","r","e","c","t","o","r","y">>, "application/json",
                            <<>>, TRUE)),
         Tail(dirs))

\* the loop over the guides subdirectories (no modelled directory holds an index.json)
GuidesDirs ==
  /\ pc = "guides"
  /\ walk = <<>>
  /\ \E dirs \in Orders(FindDirs(fs, GuidesDir)) :
       RESOURCE_INDEX' = SetDirectories(RESOURCE_INDEX, dirs)
  /\ pc' = "ecoStart"
  /\ UNCHANGED <<nav, dl, dbAtStart, fs, unreadable, db, PAGE_MAP, needsFtsRebuild, rowsAtRebuild, cursor, walk,
                 lastCall>>

\* the two find listings of the ecosystem tree
EcosystemStart ==
  /\ pc = "ecoStart"
  /\ IF ExistsSync(fs, EcosystemDir)
     THEN /\ \E md \in Orders(FindFiles(fs, EcosystemDir, MD)),
                mdx \in Orders(FindFiles(fs, EcosystemDir, MDX)) : walk' = md \o mdx
          /\ pc' = "eco"
     ELSE pc' = "connect" /\ UNCHANGED walk
  /\ UNCHANGED <<nav, dl, dbAtStart, fs, unreadable, db, PAGE_MAP, RESOURCE_INDEX, needsFtsRebuild,
                 rowsAtRebuild, cursor, lastCall>>

\* one iteration of the loop over the ecosystem files
EcosystemFileStep ==
  /\ pc = "eco"
  /\ walk # <<>>
  /\ LET filePath == Head(walk)
         relativePath == StripMdExt(RemoveFirst(filePath, DOCS_DIR \o <<"/">>))
         filename == StripMdExt(LastSegment(filePath))
         content == Content(filePath)
         firstLine == IF Lines(content)[1] # <<>> THEN Lines(content)[1] ELSE filename
         title == IF filename = <<>> THEN <<>> ELSE <<UpChar(Head(filename))>> \o Tail(filename)
     IN IF filePath \in unreadable
        THEN pc' = "crashed" /\ UNCHANGED <<db, RESOURCE_INDEX, walk>>
        ELSE /\ RESOURCE_INDEX' = MapSet(RESOURCE_INDEX,
                    Resource(SCHEME \o relativePath, title, Take(firstLine, 100),
                             "text/markdown", filePath, FALSE))
             /\ IF ~needsFtsRebuild
                THEN walk' = Tail(walk) /\ UNCHANGED <<db, pc>>
                ELSE \E insertOk \in BOOLEAN :
                       IF insertOk
                       THEN /\ db' = [db EXCEPT !.rows = indexDocument(db.rows,
                                         relativePath, title, <<"E","c","o","s","y","s","t","e","m">>, content)]
                            /\ walk' = Tail(walk)
                            /\ pc' = pc
                       ELSE pc' = "crashed" /\ UNCHANGED <<db, walk>>
  /\ UNCHANGED <<nav, dl, dbAtStart, fs, unreadable, PAGE_MAP, needsFtsRebuild, rowsAtRebuild, cursor, lastCall>>

\* the end of buildResourceIndex; the tools are registered
BuildDone ==
  /\ pc = "eco"
  /\ walk = <<>>
  /\ pc' = "connect"
  /\ UNCHANGED <<nav, dl, dbAtStart, fs, unreadable, db, PAGE_MAP, RESOURCE_INDEX, needsFtsRebuild,
                 rowsAtRebuild, cursor, walk, lastCall>>

\* a connect that does not wait for buildResourceIndex
Connect_withoutAwait ==
  /\ pc \in {"nav", "guides", "eco", "connect"}
  /\ pc' = "serving"
  /\ UNCHANGED <<nav, dl, dbAtStart, fs, unreadable, db, PAGE_MAP, RESOURCE_INDEX, needsFtsRebuild,
                 rowsAtRebuild, cursor, walk, lastCall>>

\* server.connect(transport): from here on tool calls are handled
Connect ==
  /\ pc = "connect"
  /\ pc' = "serving"
  /\ UNCHANGED <<nav, dl, dbAtStart, fs, unreadable, db, PAGE_MAP, RESOURCE_INDEX, needsFtsRebuild,
                 rowsAtRebuild, cursor, walk, lastCall>>

----------------------------------------------------------------------------
\* grepDocuments

ALLOWED_FLAGS == {"g", "i", "m", "u", "y", "s"}

\* Array.from(new Set(list)): the first occurrence of each member, in order
RECURSIVE Dedupe(_)
Dedupe(s) ==
  IF s = <<>> THEN <<>>
  ELSE LET rest == Dedupe(SubSeq(s, 1, Len(s) - 1))
       IN IF \E i \in 1..Len(rest) : rest[i] = s[Len(s)] THEN rest
          ELSE Append(rest, s[Len(s)])

\* flags taken as the caller gave them, g not forced
FinalFlags_asGiven(flags) == Dedupe(SelectSeq(flags, LAMBDA c : c \in ALLOWED_FLAGS))

\* the flags the RegExp is compiled with
FinalFlags(flags) ==
  LET flagList == Dedupe(SelectSeq(flags, LAMBDA c : c \in ALLOWED_FLAGS))
  IN IF \E i \in 1..Len(flagList) : flagList[i] = "g" THEN flagList
     ELSE Append(flagList, "g")

HasFlag(flags, c) == \E i \in 1..Len(flags) : flags[i] = c

\* new RegExp(pattern, flags) throws.  The modelled patterns are runs of letters,
\* digits and spaces, which match literally, and patterns with an unclosed group.
RegExpThrows(pattern) ==
  Cardinality({i \in 1..Len(pattern) : pattern[i] = "("})
    # Cardinality({i \in 1..Len(pattern) : pattern[i] = ")"})

\* the pattern matches content at position i
MatchAt(content, pattern, flags, i) ==
  /\ i + Len(pattern) - 1 <= Len(content)
  /\ LET piece == SubSeq(content, i, i + Len(pattern) - 1)
     IN IF HasFlag(flags, "i") THEN Fold(piece) = Fold(pattern) ELSE piece = pattern

\* start positions of the successive matches of a global regex, from position i:
\* after a match the scan goes on behind it (one further on after an empty match);
\* a sticky regex stops at the first position that does not match
RECURSIVE MatchesFrom(_, _, _, _)
MatchesFrom(content, pattern, flags, i) ==
  IF i + Len(pattern) - 1 > Len(content) THEN <<>>
  ELSE IF MatchAt(content, pattern, flags, i)
       THEN <<i>> \o MatchesFrom(content, pattern, flags,
                                 i + (IF pattern = <<>> THEN 1 ELSE Len(pattern)))
       ELSE IF HasFlag(flags, "y") THEN <<>>
       ELSE MatchesFrom(content, pattern, flags, i + 1)

\* content.match(regex): the matches (start positions); <<>> stands for null.
\* Without g the array holds the first match only (the patterns have no groups).
StringMatch(content, pattern, flags) ==
  LET all == MatchesFrom(content, pattern, flags, 1)
  IN IF HasFlag(flags, "g") THEN all ELSE Take(all, 1)

\* content.search(regex), 1-based
StringSearch(content, pattern, flags) ==
  LET all == MatchesFrom(content, pattern, flags, 1)
  IN IF all = <<>> THEN 0 ELSE all[1]

\* the snippet around the first match
GrepSnippet(content, matchIndex) ==
  LET start == IF matchIndex - 1 - 50 > 0 THEN matchIndex - 1 - 50 ELSE 0
      end == IF matchIndex - 1 + 100 < Len(content) THEN matchIndex - 1 + 100 ELSE Len(content)
      body == Trim(CollapseNewlines(SubSeq(content, start + 1, end)))
  IN (IF start > 0 THEN <<".",".",".">> ELSE <<>>) \o body
       \o (IF end < Len(content) THEN <<".",".",".">> ELSE <<>>)

\* results.sort((a, b) => b.score - a.score): stable, descending
RECURSIVE SortByScoreDesc(_)
SortByScoreDesc(rs) ==
  IF rs = <<>> THEN <<>>
  ELSE LET m == CHOOSE i \in 1..Len(rs) : \A j \in 1..Len(rs) :
                  rs[i].score > rs[j].score \/ (rs[i].score = rs[j].score /\ i <= j)
       IN <<rs[m]>> \o SortByScoreDesc(SubSeq(rs, 1, m - 1) \o SubSeq(rs, m + 1, Len(rs)))

\* a scan that a failed read ends
RECURSIVE GrepScan_stopsAtFailure(_, _, _, _, _, _)
GrepScan_stopsAtFailure(m, bad, i, pattern, flags, searchPath) ==
  IF i > Len(m) THEN <<>>
  ELSE LET r == m[i]
           rest == GrepScan_stopsAtFailure(m, bad, i + 1, pattern, flags, searchPath)
           content == Content(r.filePath)
           matches == StringMatch(content, pattern, flags)
       IN IF r.isDirectory \/ r.filePath = <<>> THEN rest
          ELSE IF searchPath # <<>> /\ ~StartsWith(SlugOf(r.uri), searchPath) THEN rest
          ELSE IF r.filePath \in bad THEN <<>>
          ELSE IF Len(matches) > 0
               THEN <<[uri |-> r.uri, title |-> r.name, score |-> Len(matches),
                       snippet |-> GrepSnippet(content,
                                     StringSearch(content, pattern, flags))]>> \o rest
               ELSE rest

\* the loop over RESOURCE_INDEX.entries(): the results pushed, in catalog order
RECURSIVE GrepScan(_, _, _, _, _, _)
GrepScan(m, bad, i, pattern, flags, searchPath) ==
  IF i > Len(m) THEN <<>>
  ELSE LET r == m[i]
           rest == GrepScan(m, bad, i + 1, pattern, flags, searchPath)
           content == Content(r.filePath)
           matches == StringMatch(content, pattern, flags)
       IN IF r.isDirectory \/ r.filePath = <<>> THEN rest
          ELSE IF searchPath # <<>> /\ ~StartsWith(SlugOf(r.uri), searchPath) THEN rest
          ELSE IF r.filePath \in bad THEN rest
          ELSE IF Len(matches) > 0
               THEN <<[uri |-> r.uri, title |-> r.name, score |-> Len(matches),
                       snippet |-> GrepSnippet(content,
                                     StringSearch(content, pattern, flags))]>> \o rest
               ELSE rest

\* the files the loop reads (or tries to read)
GrepFilesRead(m, searchPath) ==
  {m[i].filePath : i \in {j \in 1..Len(m) :
      /\ ~m[j].isDirectory /\ m[j].filePath # <<>>
      /\ (searchPath # <<>> => StartsWith(SlugOf(m[j].uri), searchPath))}}

\* a grep that meets the invalid pattern only after the files were read
grepDocuments_readsBeforeCompiling(m, bad, pattern, searchPath, limit, flags) ==
  IF RegExpThrows(pattern)
  THEN [threw |-> TRUE, message |-> <<"I","n","v","a","l","i","d"," ","r","e","g","u","l","a","r"," ","e","x","p","r","e","s","s","i","o","n",":"," ">> \o pattern,
        results |-> <<>>, filesRead |-> GrepFilesRead(m, searchPath)]
  ELSE [threw |-> FALSE, message |-> <<>>,
        results |-> Take(SortByScoreDesc(
                      GrepScan(m, bad, 1, pattern, FinalFlags(flags), searchPath)), limit),
        filesRead |-> GrepFilesRead(m, searchPath)]

\* grepDocuments(pattern, searchPath, limit, flags)
grepDocuments(m, bad, pattern, searchPath, limit, flags) ==
  IF RegExpThrows(pattern)
  THEN [threw |-> TRUE, message |-> <<"I","n","v","a","l","i","d"," ","r","e","g","u","l","a","r"," ","e","x","p","r","e","s","s","i","o","n",":"," ">> \o pattern,
        results |-> <<>>, filesRead |-> {}]
  ELSE [threw |-> FALSE, message |-> <<>>,
        results |-> Take(SortByScoreDesc(
                      GrepScan(m, bad, 1, pattern, FinalFlags(flags), searchPath)), limit),
        filesRead |-> GrepFilesRead(m, searchPath)]

----------------------------------------------------------------------------
\* normalizeSlug and readDocument

\* value.replace(/^\/+/, '')
RECURSIVE StripLeadingSlashes(_)
StripLeadingSlashes(s) ==
  IF s # <<>> /\ Head(s) = "/" THEN StripLeadingSlashes(Tail(s)) ELSE s

\* value.replace(/\/+$/, '')
RECURSIVE StripTrailingSlashes(_)
StripTrailingSlashes(s) ==
  IF s # <<>> /\ s[Len(s)] = "/" THEN StripTrailingSlashes(SubSeq(s, 1, Len(s) - 1)) ELSE s

\* a normalization that accepts a uri and takes the slug out of it
normalizeSlug_acceptsUri(input) ==
  LET value == Trim(input)
      bare == StripTrailingSlashes(StripLeadingSlashes(RemoveFirst(value, SCHEME)))
      slug == IF EndsWith(bare, MD) THEN SubSeq(bare, 1, Len(bare) - 3) ELSE bare
  IN IF slug = <<>> THEN [threw |-> TRUE, message |-> <<"D","o","c","u","m","e","n","t"," ","s","l","u","g"," ","i","s"," ","r","e","q","u","i","r","e","d">>]
     ELSE [threw |-> FALSE, key |-> SCHEME \o slug]

\* normalizeSlug: the key, or the message of the Error it throws
normalizeSlug(input) ==
  LET value == Trim(input)
      bare == StripTrailingSlashes(StripLeadingSlashes(value))
      slug == IF EndsWith(bare, MD) THEN SubSeq(bare, 1, Len(bare) - 3) ELSE bare
  IN IF value = <<>> THEN [threw |-> TRUE, message |-> <<"D","o","c","u","m","e","n","t"," ","s","l","u","g"," ","i","s"," ","r","e","q","u","i","r","e","d">>]
     ELSE IF IndexOf(value, <<":","/","/">>) > 0
     THEN [threw |-> TRUE, message |-> <<"U","s","e"," ","d","o","c","u","m","e","n","t","a","t","i","o","n"," ","s","l","u","g","s"," ","l","i","k","e"," ","r","u","n","t","i","m","e","/","b","u","n","-","a","p","i","s">>]
     ELSE IF slug = <<>> THEN [threw |-> TRUE, message |-> <<"D","o","c","u","m","e","n","t"," ","s","l","u","g"," ","i","s"," ","r","e","q","u","i","r","e","d">>]
     ELSE [threw |-> FALSE, key |-> SCHEME \o slug]

\* a read that answers with the empty text when the file cannot be read
readDocument_swallowsReadError(m, bad, input) ==
  LET n == normalizeSlug(input)
  IN IF n.threw THEN [threw |-> TRUE, message |-> n.message, filesRead |-> {},
                       lookups |-> 0]
     ELSE IF ~MapHas(m, n.key)
     THEN [threw |-> TRUE, message |-> <<"D","o","c","u","m","e","n","t"," ","n","o","t"," ","f","o","u","n","d"," ","f","o","r"," ","s","l","u","g",":"," ">> \o input,
           filesRead |-> {}, lookups |-> 1]
     ELSE LET resource == MapGet(m, n.key)
          IN IF resource.filePath = <<>> \/ resource.isDirectory
             THEN [threw |-> TRUE,
                   message |-> <<"R","e","q","u","e","s","t","e","d"," ","s","l","u","g"," ","i","s"," ","n","o","t"," ","a"," ","d","o","c","u","m","e","n","t",":"," ">> \o input,
                   filesRead |-> {}, lookups |-> 1]
             ELSE [threw |-> FALSE,
                   message |-> IF resource.filePath \in bad THEN <<>>
                               ELSE Content(resource.filePath),
                   filesRead |-> {resource.filePath}, lookups |-> 1]

\* a read that takes every catalog entry for a document
readDocument_noDirectoryCheck(m, bad, input) ==
  LET n == normalizeSlug(input)
  IN IF n.threw THEN [threw |-> TRUE, message |-> n.message, filesRead |-> {},
                       lookups |-> 0]
     ELSE IF ~MapHas(m, n.key)
     THEN [threw |-> TRUE, message |-> <<"D","o","c","u","m","e","n","t"," ","n","o","t"," ","f","o","u","n","d"," ","f","o","r"," ","s","l","u","g",":"," ">> \o input,
           filesRead |-> {}, lookups |-> 1]
     ELSE LET resource == MapGet(m, n.key)
          IN IF resource.filePath \in bad
             THEN [threw |-> TRUE, message |-> <<"E","A","C","C","E","S">>,
                   filesRead |-> {resource.filePath}, lookups |-> 1]
             ELSE [threw |-> FALSE, message |-> Content(resource.filePath),
                   filesRead |-> {resource.filePath}, lookups |-> 1]

\* readDocument(input): the text, or the message of the Error it throws (a rejected
\* file.text() included), and the files it read or tried to read, and the number of
\* RESOURCE_INDEX.get calls it made
readDocument(m, bad, input) ==
  LET n == normalizeSlug(input)
  IN IF n.threw THEN [threw |-> TRUE, message |-> n.message, filesRead |-> {},
                       lookups |-> 0]
     ELSE IF ~MapHas(m, n.key)
     THEN [threw |-> TRUE, message |-> <<"D","o","c","u","m","e","n","t"," ","n","o","t"," ","f","o","u","n","d"," ","f","o","r"," ","s","l","u","g",":"," ">> \o input,
           filesRead |-> {}, lookups |-> 1]
     ELSE LET resource == MapGet(m, n.key)
          IN IF resource.filePath = <<>> \/ resource.isDirectory
             THEN [threw |-> TRUE,
                   message |-> <<"R","e","q","u","e","s","t","e","d"," ","s","l","u","g"," ","i","s"," ","n","o","t"," ","a"," ","d","o","c","u","m","e","n","t",":"," ">> \o input,
                   filesRead |-> {}, lookups |-> 1]
             ELSE IF resource.filePath \in bad
             THEN [threw |-> TRUE, message |-> <<"E","A","C","C","E","S">>,
                   filesRead |-> {resource.filePath}, lookups |-> 1]
             ELSE [threw |-> FALSE, message |-> Content(resource.filePath),
                   filesRead |-> {resource.filePath}, lookups |-> 1]

----------------------------------------------------------------------------
\* the loop of the list_bun_docs handler

RECURSIVE ListLoop(_, _, _, _, _)
ListLoop(m, i, category, limit, results) ==
  IF i > Len(m) THEN results
  ELSE IF m[i].isDirectory THEN ListLoop(m, i + 1, category, limit, results)
  ELSE IF category # <<>> /\ ~StartsWith(SlugOf(m[i].uri), category)
       THEN ListLoop(m, i + 1, category, limit, results)
  ELSE LET pushed == Append(results, [uri |-> m[i].uri, title |-> m[i].name,
                                      description |-> m[i].description])
       IN IF Len(pushed) >= limit THEN pushed
          ELSE ListLoop(m, i + 1, category, limit, pushed)

----------------------------------------------------------------------------
\* Tool calls.  lastCall holds the call being answered: its arguments, the result
\* the handler returns, and what the handler touched.  Respond sends the result.
\* A call is handled when no other is being answered; a search may also be
\* repeated with the same arguments right after it was answered.

MaxLimit == 2
MaxQueryLen == 2

Limits == 0..MaxLimit

RECURSIVE StringsUpTo(_, _)
StringsUpTo(n, alphabet) ==
  IF n = 0 THEN {<<>>}
  ELSE LET shorter == StringsUpTo(n - 1, alphabet)
       IN shorter \cup {Append(s, c) : s \in shorter, c \in alphabet}

Queries ==
  StringsUpTo(MaxQueryLen, {" ", ":"})
    \cup {<<c>> : c \in RESERVED}
    \cup {<<"a">>, <<"b">>, <<"a","b">>, <<"a"," ","b">>, <<"(","a","*",")">>, <<"\t","^","\n">>}

SearchPaths == {<<>>, <<"A">>, <<"_">>, <<"g">>}

GrepPatterns == {<<"a","b">>, <<"b">>, <<"(">>}

\* <<given, flags>>: the flags argument may be left out
GrepFlagInputs == {<<FALSE, <<>>>>, <<TRUE, <<>>>>, <<TRUE, <<"i">>>>, <<TRUE, <<"y">>>>,
                   <<TRUE, <<"x","i","i">>>>}

GrepPaths == {<<>>, <<"g">>}

ReadInputs ==
  {<<>>, <<" ">>, <<"a">>, <<"/","a",".","m","d">>, <<" ","a","/"," ">>, <<"z","z">>, <<"g","u","i","d","e","s">>, <<"g","u","i","d","e","s","/","b">>,
   <<"g","u","i","d","e","s","/","b","/","c">>, <<"e","c","o","s","y","s","t","e","m","/","e",".","m","d">>, <<"b","u","n","c","u","m","e","n","t",":","/","/","a">>,
   <<"a",".","m","d",".","m","d">>, <<"a","/",".","m","d">>, <<"/",".","m","d">>}

Categories == {<<>>, <<"g">>, <<"a">>}

Idle == pc = "serving" /\ lastCall = NoCall

\* a statement run on the store may fail (I/O error, corrupt file): bun:sqlite throws
Faults(out) == IF out.statements > 0 THEN BOOLEAN ELSE {FALSE}

\* the search_bun_docs handler, given what searchDocuments does and whether the
\* statement it ran failed
SearchHandler(input, out, fault, repeat) ==
  lastCall' =
       [op |-> "search", input |-> input, repeat |-> repeat,
        isError |-> fault,
        results |-> IF fault THEN <<>> ELSE out.results,
        text |-> IF fault THEN <<"S","e","a","r","c","h"," ","e","r","r","o","r",":"," ","d","i","s","k"," ","I","/","O"," ","e","r","r","o","r">> ELSE <<>>,
        statements |-> out.statements, filesRead |-> {}, storeFailed |-> fault]

SearchTool ==
  /\ \/ /\ Idle
        /\ \E query \in Queries, path \in SearchPaths, limit \in Limits :
             LET out == searchDocuments(db.rows, query, path, limit)
             IN \E fault \in Faults(out) :
                  SearchHandler([query |-> query, path |-> path, limit |-> limit],
                                out, fault, FALSE)
     \/ /\ pc = "serving"
        /\ lastCall.op = "search"
        /\ LET out == searchDocuments(db.rows, lastCall.input.query, lastCall.input.path,
                                      lastCall.input.limit)
           IN \E fault \in Faults(out) : SearchHandler(lastCall.input, out, fault, TRUE)
  /\ UNCHANGED <<nav, dl, dbAtStart, fs, unreadable, db, PAGE_MAP, RESOURCE_INDEX, needsFtsRebuild,
                 rowsAtRebuild, pc, cursor, walk>>

\* the grep_bun_docs handler
GrepTool ==
  /\ Idle
  /\ \E pattern \in GrepPatterns, path \in GrepPaths, limit \in Limits,
        flags \in GrepFlagInputs :
       LET input == [pattern |-> pattern, path |-> path, limit |-> limit, flags |-> flags]
           out == grepDocuments(RESOURCE_INDEX, unreadable, pattern, path, limit,
                                IF flags[1] THEN flags[2] ELSE <<"g","i">>)
       IN lastCall' =
               [op |-> "grep", input |-> input, repeat |-> FALSE,
                isError |-> out.threw,
                results |-> out.results,
                text |-> IF out.threw THEN <<"G","r","e","p"," ","e","r","r","o","r",":"," ">> \o out.message ELSE <<>>,
                statements |-> 0, filesRead |-> out.filesRead]
  /\ UNCHANGED <<nav, dl, dbAtStart, fs, unreadable, db, PAGE_MAP, RESOURCE_INDEX, needsFtsRebuild,
                 rowsAtRebuild, pc, cursor, walk>>

\* the read_bun_doc handler
ReadTool ==
  /\ Idle
  /\ \E path \in ReadInputs :
       LET input == [path |-> path]
           out == readDocument(RESOURCE_INDEX, unreadable, path)
       IN lastCall' =
               [op |-> "read", input |-> input, repeat |-> FALSE,
                isError |-> out.threw,
                results |-> <<>>,
                text |-> IF out.threw THEN <<"R","e","a","d"," ","e","r","r","o","r",":"," ">> \o out.message ELSE out.message,
                statements |-> 0, filesRead |-> out.filesRead,
                lookups |-> out.lookups]
  /\ UNCHANGED <<nav, dl, dbAtStart, fs, unreadable, db, PAGE_MAP, RESOURCE_INDEX, needsFtsRebuild,
                 rowsAtRebuild, pc, cursor, walk>>

\* a list handler that takes the entries it returns out of the catalog
ListTool_consumesCatalog ==
  /\ Idle
  /\ \E category \in Categories, limit \in Limits :
       LET input == [category |-> category, limit |-> limit]
           results == ListLoop(RESOURCE_INDEX, 1, category, limit, <<>>)
       IN /\ lastCall' =
               [op |-> "list", input |-> input, repeat |-> FALSE,
                isError |-> FALSE, results |-> results,
                text |-> <<>>, statements |-> 0, filesRead |-> {}]
          /\ RESOURCE_INDEX' = SelectSeq(RESOURCE_INDEX,
                 LAMBDA r : \A k \in 1..Len(results) : results[k].uri # r.uri)
  /\ UNCHANGED <<nav, dl, dbAtStart, fs, unreadable, db, PAGE_MAP, needsFtsRebuild,
                 rowsAtRebuild, pc, cursor, walk>>

\* the list_bun_docs handler
ListTool ==
  /\ Idle
  /\ \E category \in Categories, limit \in Limits :
       LET input == [category |-> category, limit |-> limit]
       IN lastCall' =
               [op |-> "list", input |-> input, repeat |-> FALSE,
                isError |-> FALSE,
                results |-> ListLoop(RESOURCE_INDEX, 1, category, limit, <<>>),
                text |-> <<>>, statements |-> 0, filesRead |-> {}]
  /\ UNCHANGED <<nav, dl, dbAtStart, fs, unreadable, db, PAGE_MAP, RESOURCE_INDEX, needsFtsRebuild,
                 rowsAtRebuild, pc, cursor, walk>>

\* the result goes back to the client
Respond ==
  /\ pc = "serving"
  /\ lastCall # NoCall
  /\ lastCall' = NoCall
  /\ UNCHANGED <<nav, dl, dbAtStart, fs, unreadable, db, PAGE_MAP, RESOURCE_INDEX, needsFtsRebuild,
                 rowsAtRebuild, pc, cursor, walk>>

----------------------------------------------------------------------------
\* The server: start-up, then tool calls

InitCacheIdle ==
  /\ cache = {}
  /\ now = 0
  /\ lastSet = {}
  /\ cacheOut = [op |-> "none"]

NoMessage == [type |-> "none", payload |-> <<>>]

InitWorkerIdle ==
  /\ wdb = [open |-> FALSE, rows |-> <<>>]
  /\ wmsg = NoMessage
  /\ wreply = <<>>
  /\ engineQueries = 0

Init == InitMain /\ InitCacheIdle /\ InitWorkerIdle

Next ==
  \/ (InitializeSearchDatabase /\ UNCHANGED <<cacheVars, workerVars>>)
  \/ (ParseNavigation /\ UNCHANGED <<cacheVars, workerVars>>)
  \/ (BuildStart /\ UNCHANGED <<cacheVars, workerVars>>)
  \/ (NavStep /\ UNCHANGED <<cacheVars, workerVars>>)
  \/ (GuidesStart /\ UNCHANGED <<cacheVars, workerVars>>)
  \/ (GuidesFileStep /\ UNCHANGED <<cacheVars, workerVars>>)
  \/ (GuidesDirs /\ UNCHANGED <<cacheVars, workerVars>>)
  \/ (EcosystemStart /\ UNCHANGED <<cacheVars, workerVars>>)
  \/ (EcosystemFileStep /\ UNCHANGED <<cacheVars, workerVars>>)
  \/ (BuildDone /\ UNCHANGED <<cacheVars, workerVars>>)
  \/ (Connect /\ UNCHANGED <<cacheVars, workerVars>>)
  \/ (SearchTool /\ UNCHANGED <<cacheVars, workerVars>>)
  \/ (GrepTool /\ UNCHANGED <<cacheVars, workerVars>>)
  \/ (ReadTool /\ UNCHANGED <<cacheVars, workerVars>>)
  \/ (ListTool /\ UNCHANGED <<cacheVars, workerVars>>)
  \/ (Respond /\ UNCHANGED <<cacheVars, workerVars>>)

Spec == Init /\ [][Next]_vars

----------------------------------------------------------------------------
\* initializeDocsDir and the download of the documents.  dl.dir is the cache docs
\* directory: "absent", "nonav" (present without docs.json and nav.ts) or "nav";
\* dl.tried lists the candidates the running downloadDocsWithFallback has tried,
\* dl.ok is the position of the one whose download succeeded (0: none), dl.calls
\* counts the calls of downloadDocsWithFallback, dl.again the times the directory
\* was removed to be downloaded again, dl.lastError names the candidate
\* of the last failure (<<>>: undefined).

\* Bun.version
BunVersions ==
  { <<"1">>, <<"1","-","c">>, <<"1","+","b">>, <<"1","-","c","+","b">>,
    <<"1","-","c","-","d","+","b">> }

\* s.slice(0, s.indexOf(c)), or s when c does not occur
Before(s, c) ==
  LET i == IndexOf(s, <<c>>) IN IF i = 0 THEN s ELSE SubSeq(s, 1, i - 1)

\* candidates with the release in front of the full version
listVersionCandidates_releaseFirst(version) ==
  LET base == IF Before(version, "+") # <<>> THEN Before(version, "+") ELSE version
      release == Before(base, "-")
  IN IF IndexOf(base, <<"-">>) > 0 /\ release # <<>> THEN <<release, base>> ELSE <<base>>

\* listVersionCandidates: Array.from of the Set, in insertion order
listVersionCandidates(version) ==
  LET base == IF Before(version, "+") # <<>> THEN Before(version, "+") ELSE version
      dash == IndexOf(base, <<"-">>)
      release == SubSeq(base, 1, dash - 1)
  IN IF base = <<>> THEN <<>>
     ELSE IF dash > 0 /\ release # <<>> /\ release # base THEN <<base, release>>
     ELSE <<base>>

\* the position after a return of downloadDocsWithFallback
AfterDownload(at) == IF at = "download1" THEN "check" ELSE "final"

\* initializeDocsDir, first check: download when the directory does not exist
DocsDirStart ==
  /\ dl.pc = "start"
  /\ dl' = IF dl.dir = "absent"
           THEN [dl EXCEPT !.pc = "download1", !.i = 1, !.tried = <<>>, !.ok = 0,
                           !.lastError = <<>>, !.calls = dl.calls + 1]
           ELSE [dl EXCEPT !.pc = "check"]

\* downloadDocsWithFallback: one turn of the loop (downloadDocsFromGitHub succeeds
\* or throws; a failed attempt may already have removed the target directory), or
\* the end of the loop
DownloadStep ==
  /\ dl.pc \in {"download1", "download2"}
  /\ LET versions == listVersionCandidates(dl.version)
     IN IF dl.i > Len(versions)
        THEN dl' = [dl EXCEPT !.pc = IF dl.lastError # <<>> THEN "failed"
                                     ELSE AfterDownload(dl.pc)]
        ELSE \/ \E tree \in {"nonav", "nav"} :
                  dl' = [dl EXCEPT !.tried = Append(dl.tried, versions[dl.i]),
                                   !.ok = dl.i, !.dir = tree,
                                   !.pc = AfterDownload(dl.pc)]
             \/ \E left \in {dl.dir, "absent"} :
                  dl' = [dl EXCEPT !.tried = Append(dl.tried, versions[dl.i]),
                                   !.lastError = <<versions[dl.i]>>,
                                   !.i = dl.i + 1, !.dir = left]

\* initializeDocsDir, second check: without docs.json and nav.ts the directory
\* is removed and downloaded again
DocsDirCheck ==
  /\ dl.pc = "check"
  /\ dl' = IF dl.dir = "nav" THEN [dl EXCEPT !.pc = "ready"]
           ELSE [dl EXCEPT !.pc = "download2", !.dir = "absent", !.i = 1,
                           !.tried = <<>>, !.ok = 0, !.lastError = <<>>,
                           !.calls = dl.calls + 1, !.again = dl.again + 1]

\* a final check that lets start-up go on
DocsDirFinal_proceeds ==
  /\ dl.pc = "final"
  /\ dl' = [dl EXCEPT !.pc = "ready"]

\* initializeDocsDir, final check: process.exit(1) without a navigation file
DocsDirFinal ==
  /\ dl.pc = "final"
  /\ dl' = [dl EXCEPT !.pc = IF dl.dir = "nav" THEN "ready" ELSE "exit1"]

\* initializeDocsDir returns and the module code goes on to the store
DocsDirReturn ==
  /\ dl.pc = "ready"
  /\ pc = "docs"
  /\ pc' = "initDb"
  /\ UNCHANGED <<nav, dl, fs, unreadable, db, dbAtStart, PAGE_MAP, RESOURCE_INDEX,
                 needsFtsRebuild, rowsAtRebuild, cursor, walk, lastCall>>

InitDocs ==
  /\ nav = NavConsumed
  /\ dl \in {[pc |-> "start", version |-> v, i |-> 1, lastError |-> <<>>,
              tried |-> <<>>, ok |-> 0, dir |-> d, calls |-> 0, again |-> 0] :
               v \in BunVersions, d \in {"absent", "nonav", "nav"}}
  /\ fs = {}
  /\ unreadable = {}
  /\ db = [rows |-> <<>>, exists |-> FALSE, version |-> 0]
  /\ dbAtStart = db
  /\ PAGE_MAP = <<>>
  /\ RESOURCE_INDEX = <<>>
  /\ needsFtsRebuild = FALSE
  /\ rowsAtRebuild = <<>>
  /\ pc = "docs"
  /\ cursor = 1
  /\ walk = <<>>
  /\ lastCall = NoCall
  /\ InitCacheIdle
  /\ InitWorkerIdle

docsFrame == <<nav, fs, unreadable, db, dbAtStart, PAGE_MAP, RESOURCE_INDEX, needsFtsRebuild,
               rowsAtRebuild, pc, cursor, walk, lastCall, cacheVars, workerVars>>

NextDocs ==
  \/ (DocsDirStart /\ UNCHANGED docsFrame)
  \/ (DownloadStep /\ UNCHANGED docsFrame)
  \/ (DocsDirCheck /\ UNCHANGED docsFrame)
  \/ (DocsDirFinal /\ UNCHANGED docsFrame)
  \/ (DocsDirReturn /\ UNCHANGED <<cacheVars, workerVars>>)

SpecDocs == InitDocs /\ [][NextDocs]_vars

----------------------------------------------------------------------------
\* The navigation pass on its own: every flat list of up to MaxNavItems items
\* against the files the candidates of one slug can name

FileA_index_md == Join(Join(DOCS_DIR, <<"a">>), <<"i","n","d","e","x",".","m","d">>)
FileA_index_mdx == Join(Join(DOCS_DIR, <<"a">>), <<"i","n","d","e","x",".","m","d","x">>)

\* the files of DOCS_DIR that the candidates of slug 'a' can name
NavFsChoices ==
  { {}, {FileA_md}, {FileA_mdx, FileA_index_md}, {FileA_index_md, FileA_index_mdx},
    {FileA_index_mdx}, {FileA_md, FileA_mdx, FileA_index_md, FileA_index_mdx} }

MaxNavItems == 3

\* items of nav.ts: two dividers, page 'a', a disabled page 'c', page 'b' with an href
NavItems ==
  { NavItem("divider", <<"D">>, <<>>, <<>>, FALSE, <<>>),
    NavItem("divider", <<"E">>, <<>>, <<>>, FALSE, <<>>),
    NavItem("page", <<"A">>, <<"a">>, <<"x">>, FALSE, <<>>),
    NavItem("page", <<"C">>, <<"c">>, <<>>, TRUE, <<>>),
    NavItem("page", <<"B">>, <<"b">>, <<>>, FALSE, <<"h","t","t","p","s",":","/","/","b">>) }

NavItemLists == UNION {[1..n -> NavItems] : n \in 0..MaxNavItems}

\* navigation.tabs of docs.json: a tab with two groups, a tab without groups
DocsJsonSample ==
  << [tab |-> <<"T">>,
      groups |-> << [group |-> <<"G">>, pages |-> << <<"/","a">>, <<"g","/","b","-","c">> >>],
                    [group |-> <<"H">>, pages |-> <<>>] >>],
     [tab |-> <<"R">>, groups |-> <<>>] >>

\* what a file that cannot be parsed throws: docs.json an Error (SyntaxError of
\* file.json(), TypeError of the walk); nav.ts whatever evaluating the module throws
DocsJsonFiles ==
  { [ok |-> TRUE, tabs |-> DocsJsonSample, cause |-> NoCause],
    [ok |-> FALSE, tabs |-> <<>>, cause |-> [isError |-> TRUE, text |-> Unexpected]] }

NavTsFiles ==
  {[ok |-> TRUE, items |-> l, cause |-> NoCause] : l \in NavItemLists}
  \cup {[ok |-> FALSE, items |-> <<>>, cause |-> [isError |-> e, text |-> Unexpected]] :
          e \in BOOLEAN}

\* nav.ts beside a docs.json: a list with one divider and page 'a', or a broken file
NavTsBeside ==
  { [ok |-> TRUE, cause |-> NoCause,
     items |-> << NavItem("divider", <<"D">>, <<>>, <<>>, FALSE, <<>>),
                  NavItem("page", <<"A">>, <<"a">>, <<"x">>, FALSE, <<>>) >>],
    [ok |-> FALSE, items |-> <<>>, cause |-> [isError |-> TRUE, text |-> Unexpected]] }

NavFileChoices ==
  {[docsJson |-> <<>>, navTs |-> <<t>>, loaded |-> {}, error |-> <<>>] : t \in NavTsFiles}
  \cup {[docsJson |-> <<d>>, navTs |-> <<t>>, loaded |-> {}, error |-> <<>>] :
          d \in DocsJsonFiles, t \in NavTsBeside}
  \cup {[docsJson |-> <<d>>, navTs |-> <<>>, loaded |-> {}, error |-> <<>>] :
          d \in DocsJsonFiles}
  \cup {[docsJson |-> <<>>, navTs |-> <<>>, loaded |-> {}, error |-> <<>>]}

InitNav ==
  /\ nav \in NavFileChoices
  /\ dl = DocsReady
  /\ fs \in NavFsChoices
  /\ unreadable = {}
  /\ db \in {d \in DbChoices : d.exists /\ d.version = SCHEMA_VERSION}
  /\ dbAtStart = db
  /\ PAGE_MAP = <<>>
  /\ RESOURCE_INDEX = <<>>
  /\ needsFtsRebuild = FALSE
  /\ rowsAtRebuild = <<>>
  /\ pc = "parse"
  /\ cursor = 1
  /\ walk = <<>>
  /\ lastCall = NoCall
  /\ InitCacheIdle
  /\ InitWorkerIdle

NextNav ==
  \/ (ParseNavigation /\ UNCHANGED <<cacheVars, workerVars>>)
  \/ (BuildStart /\ UNCHANGED <<cacheVars, workerVars>>)
  \/ (NavStep /\ UNCHANGED <<cacheVars, workerVars>>)

SpecNav == InitNav /\ [][NextNav]_vars

----------------------------------------------------------------------------
\* SimpleCache (cache.ts).  The map is a set of entries with distinct keys; time
\* is Date.now(), which the model lets advance only.

\* what get returns: <<v>> for the value v, << >> for undefined
UNDEFINED == <<>>

\* the map's entry for key, as a set of at most one member
CacheEntryOf(c, key) == {e \in c : e.key = key}

\* Date.now() > entry.expiry
Expired_atExpiry(entry, t) == t >= entry.expiry

Expired(entry, t) == t > entry.expiry

\* cleanup(): every expired entry goes
SimpleCache_cleanup(c, t) == {e \in c : ~Expired(e, t)}

\* the size above which set() sweeps: 1000 in cache.ts, scaled to the model's keys
CleanupCeiling == 1

\* a set that makes room by evicting the entries that expire soonest
SimpleCache_set_evictsOldest(c, key, value, t, ttl) ==
  LET stored == (c \ CacheEntryOf(c, key))
                  \cup {[key |-> key, value |-> value, expiry |-> t + ttl]}
  IN IF Cardinality(stored) > CleanupCeiling
     THEN {e \in stored : \A f \in stored : f.expiry <= e.expiry}
     ELSE stored

\* set(key, value): the map afterwards
SimpleCache_set(c, key, value, t, ttl) ==
  LET stored == (c \ CacheEntryOf(c, key))
                  \cup {[key |-> key, value |-> value, expiry |-> t + ttl]}
  IN IF Cardinality(stored) > CleanupCeiling THEN SimpleCache_cleanup(stored, t)
     ELSE stored

\* get(key): the value returned and the map afterwards
SimpleCache_get(c, key, t) ==
  IF CacheEntryOf(c, key) = {} THEN [value |-> UNDEFINED, cache |-> c]
  ELSE LET entry == CHOOSE e \in CacheEntryOf(c, key) : TRUE
       IN IF Expired(entry, t)
          THEN [value |-> UNDEFINED, cache |-> c \ {entry}]
          ELSE [value |-> <<entry.value>>, cache |-> c]

\* clear()
SimpleCache_clear(c) == {}

\* A cache used on its own, as the tests of performance.test.ts do.  lastSet keeps,
\* for each key, the value and time of the latest set since the last clear;
\* cacheOut is the last call and what it returned.

CacheTtl == 1
MaxNow == 3
CacheKeys == {"k1", "k2", "k3"}
CacheValues == {"v1", "v2"}

CacheSetOp ==
  \E key \in CacheKeys, value \in CacheValues :
    /\ cache' = SimpleCache_set(cache, key, value, now, CacheTtl)
    /\ lastSet' = {e \in lastSet : e.key # key}
                    \cup {[key |-> key, value |-> value, time |-> now]}
    /\ cacheOut' = [op |-> "set", key |-> key, value |-> <<value>>, at |-> now]
    /\ UNCHANGED now

CacheGetOp ==
  \E key \in CacheKeys :
    LET r == SimpleCache_get(cache, key, now)
    IN /\ cache' = r.cache
       /\ cacheOut' = [op |-> "get", key |-> key, value |-> r.value, at |-> now]
       /\ UNCHANGED <<lastSet, now>>

CacheClearOp ==
  /\ cache # {}
  /\ cache' = SimpleCache_clear(cache)
  /\ lastSet' = {}
  /\ cacheOut' = [op |-> "clear", key |-> "", value |-> UNDEFINED, at |-> now]
  /\ UNCHANGED now

\* time passes
Tick ==
  /\ now < MaxNow
  /\ now' = now + 1
  /\ UNCHANGED <<cache, lastSet, cacheOut>>

\* the server is not running
MainOff ==
  /\ nav = NavConsumed
  /\ dl = DocsReady
  /\ fs = {}
  /\ unreadable = {}
  /\ db = [rows |-> <<>>, exists |-> FALSE, version |-> 0]
  /\ dbAtStart = db
  /\ PAGE_MAP = <<>>
  /\ RESOURCE_INDEX = <<>>
  /\ needsFtsRebuild = FALSE
  /\ rowsAtRebuild = <<>>
  /\ pc = "off"
  /\ cursor = 1
  /\ walk = <<>>
  /\ lastCall = NoCall

InitCache == MainOff /\ InitCacheIdle /\ InitWorkerIdle

NextCache ==
  \/ (CacheSetOp /\ UNCHANGED <<mainVars, workerVars>>)
  \/ (CacheGetOp /\ UNCHANGED <<mainVars, workerVars>>)
  \/ (CacheClearOp /\ UNCHANGED <<mainVars, workerVars>>)
  \/ (Tick /\ UNCHANGED <<mainVars, workerVars>>)

SpecCache == InitCache /\ [][NextCache]_vars

----------------------------------------------------------------------------
\* The search worker: its handler of INIT, SEARCH and REBUILD_INDEX messages.
\* wdb is the worker's database (rows: the content of the store file; open: db is
\* not null), wmsg the last message (event.data), wreply the replies posted for
\* it, engineQueries the number of statements the last search ran on the store.

Message(type, payload) == [type |-> type, payload |-> payload]

Reply(type, payload) == [type |-> type, payload |-> payload]

\* the store files the worker may be started on
WorkerDbChoices == {<<>>, <<OldRow>>}

\* the payloads of REBUILD_INDEX
RebuildPayloads ==
  { <<>>,
    <<Row(<<"a">>, <<"A">>, <<"D">>, <<"a">>, <<"a"," ","b">>)>>,
    <<Row(<<"b">>, <<"B">>, <<"D">>, <<"b">>, <<"b">>),
      Row(<<"g","/","a">>, <<"a">>, <<"G">>, <<"a"," ","a">>, <<"a"," ","a">>)>> }

WorkerQueries == {<<"a">>, <<":">>}
WorkerPaths == {<<>>, <<"g">>}
WorkerLimits == {1}

\* the payloads of SEARCH sent to the worker on its own
SearchPayloads ==
  [query : {<<"a">>, <<"b">>, <<":">>, <<"a"," ","b">>, <<" ">>},
   searchPath : WorkerPaths,
   limit : {0, 1, 2}]

\* the worker's own sanitizeFtsQuery: split on white space, drop the empty terms,
\* strip the characters of /[":*^()]/g from each, drop the terms left empty, quote
\* the others and join them with ' OR '
Worker_sanitizeFtsQuery(query) ==
  LET terms == SplitWs(query)
      cleaned == [i \in 1..Len(terms) |->
                    SelectSeq(terms[i], LAMBDA c : c \notin {"\"", ":", "*", "^", "(", ")"})]
      kept == SelectSeq(cleaned, LAMBDA t : Len(t) > 0)
  IN JoinOr([i \in 1..Len(kept) |-> <<"\"">> \o kept[i] \o <<"\"">>])

\* a search that leaves the path filter out of the statement
Worker_searchDocuments_ignoresPath(rows, query, searchPath, limit) ==
  LET sanitizedQuery == Worker_sanitizeFtsQuery(query)
  IN IF Len(sanitizedQuery) = 0 THEN [results |-> <<>>, statements |-> 0]
     ELSE LET found == FtsSelect(rows, sanitizedQuery, FALSE, <<"%">>, limit)
              marked(k) == ReplaceAll(ReplaceAll(found[k].snippet,
                                                 <<">", ">", ">">>, <<"*", "*">>),
                                      <<"<", "<", "<">>, <<"*", "*">>)
          IN [results |-> [k \in 1..Len(found) |->
                             [uri |-> <<"b","u","n","c","u","m","e","n","t",":","/","/">>
                                        \o found[k].uri,
                              title |-> found[k].title,
                              score |-> 0 - found[k].score,
                              snippet |-> marked(k)]],
              statements |-> 1]

\* the worker's own searchDocuments, on the rows of the store it opened
Worker_searchDocuments(rows, query, searchPath, limit) ==
  LET sanitizedQuery == Worker_sanitizeFtsQuery(query)
  IN IF Len(sanitizedQuery) = 0 THEN [results |-> <<>>, statements |-> 0]
     ELSE LET found == FtsSelect(rows, sanitizedQuery, Len(searchPath) > 0,
                                 searchPath \o <<"%">>, limit)
              marked(k) == ReplaceAll(ReplaceAll(found[k].snippet,
                                                 <<">", ">", ">">>, <<"*", "*">>),
                                      <<"<", "<", "<">>, <<"*", "*">>)
          IN [results |-> [k \in 1..Len(found) |->
                             [uri |-> <<"b","u","n","c","u","m","e","n","t",":","/","/">>
                                        \o found[k].uri,
                              title |-> found[k].title,
                              score |-> 0 - found[k].score,
                              snippet |-> marked(k)]],
              statements |-> 1]

\* case 'INIT'
WorkerInit ==
  /\ \E opens \in BOOLEAN :
       IF opens
       THEN /\ wdb' = [wdb EXCEPT !.open = TRUE]
            /\ wreply' = <<Reply("INIT_SUCCESS", <<>>)>>
       ELSE /\ wdb' = wdb
            /\ wreply' = <<Reply("ERROR", <<"u","n","a","b","l","e"," ","t","o"," ","o","p","e","n">>)>>
  /\ wmsg' = Message("INIT", <<>>)
  /\ UNCHANGED engineQueries

\* case 'SEARCH'
WorkerSearch ==
  /\ \E payload \in SearchPayloads :
       /\ wmsg' = Message("SEARCH", payload)
       /\ IF ~wdb.open
          THEN /\ wreply' = <<Reply("ERROR", <<"D","a","t","a","b","a","s","e"," ","n","o","t"," ","i","n","i","t","i","a","l","i","z","e","d">>)>>
               /\ engineQueries' = 0
          ELSE LET out == Worker_searchDocuments(wdb.rows, payload.query,
                                                 payload.searchPath, payload.limit)
               IN /\ engineQueries' = out.statements
                  /\ \E fault \in Faults(out) :
                       wreply' = IF fault
                                 THEN <<Reply("ERROR", <<"d","i","s","k"," ","I","/","O"," ","e","r","r","o","r">>)>>
                                 ELSE <<Reply("SEARCH_RESULTS", out.results)>>
  /\ UNCHANGED wdb

\* case 'REBUILD_INDEX'.  A failing insert is caught and rolled back; when BEGIN
\* fails the ROLLBACK of the catch block throws as well (no transaction is
\* active) and the handler ends without a reply.
WorkerRebuild ==
  /\ \E payload \in RebuildPayloads, outcome \in {"commit", "insertFails", "beginFails"} :
       IF ~wdb.open
       THEN /\ wreply' = <<Reply("ERROR", <<"D","a","t","a","b","a","s","e"," ","n","o","t"," ","i","n","i","t","i","a","l","i","z","e","d">>)>>
            /\ wdb' = wdb
       ELSE IF outcome = "commit"
       THEN /\ wdb' = [wdb EXCEPT !.rows = payload]
            /\ wreply' = <<Reply("REBUILD_SUCCESS", <<>>)>>
       ELSE IF outcome = "insertFails" /\ payload # <<>>
       THEN /\ wdb' = wdb
            /\ wreply' = <<Reply("ERROR", <<"d","i","s","k"," ","I","/","O"," ","e","r","r","o","r">>)>>
       ELSE /\ wdb' = wdb
            /\ wreply' = <<>>
  /\ wmsg' = Message("REBUILD_INDEX", <<>>)
  /\ UNCHANGED engineQueries

\* search through the Result Cache: sanitize, cache lookup, on a miss the store
\* query and the cache store.  The key is the triple (query, path filter, limit).
CachedSearch(query, searchPath, limit) ==
  LET key == <<query, searchPath, limit>>
      sanitizedQuery == sanitizeFtsQuery(query)
      looked == SimpleCache_get(cache, key, now)
      out == searchDocuments(wdb.rows, query, searchPath, limit)
  IN IF sanitizedQuery = <<>>
     THEN /\ cacheOut' = [op |-> "search", key |-> key, value |-> <<>>, hit |-> FALSE]
          /\ engineQueries' = 0
          /\ UNCHANGED cache
     ELSE IF looked.value # UNDEFINED
     THEN /\ cacheOut' = [op |-> "search", key |-> key, value |-> looked.value[1],
                          hit |-> TRUE]
          /\ cache' = looked.cache
          /\ engineQueries' = 0
     ELSE /\ cacheOut' = [op |-> "search", key |-> key, value |-> out.results,
                          hit |-> FALSE]
          /\ cache' = SimpleCache_set(looked.cache, key, out.results, now, CacheTtl)
          /\ engineQueries' = out.statements

CachedSearchTool ==
  /\ wdb.open
  /\ \E query \in WorkerQueries, searchPath \in WorkerPaths, limit \in WorkerLimits :
       CachedSearch(query, searchPath, limit)
  /\ UNCHANGED <<wdb, wmsg, wreply, now, lastSet>>

InitWorker ==
  /\ MainOff
  /\ InitCacheIdle
  /\ wdb \in {[open |-> FALSE, rows |-> r] : r \in WorkerDbChoices}
  /\ wmsg = NoMessage
  /\ wreply = <<>>
  /\ engineQueries = 0

\* the worker on its own
NextWorker ==
  \/ (WorkerInit /\ UNCHANGED <<mainVars, cacheVars>>)
  \/ (WorkerSearch /\ UNCHANGED <<mainVars, cacheVars>>)
  \/ (WorkerRebuild /\ UNCHANGED <<mainVars, cacheVars>>)

SpecWorker == InitWorker /\ [][NextWorker]_vars

\* searches through the Result Cache, with rebuilds of the store in between
NextCachedSearch ==
  \/ (WorkerInit /\ UNCHANGED <<mainVars, cacheVars>>)
  \/ (WorkerRebuild /\ UNCHANGED <<mainVars, cacheVars>>)
  \/ (CachedSearchTool /\ UNCHANGED mainVars)
  \/ (Tick /\ UNCHANGED <<mainVars, workerVars>>)

SpecCachedSearch == InitWorker /\ [][NextCachedSearch]_vars

----------------------------------------------------------------------------
\* Claims about start-up and the tool handlers of index.ts

\* C1: when a step fails after the full-text rebuild began (a file read or a row
\* insert), the store holds exactly the rows it held before the rebuild started.
C1_RebuildAllOrNothing ==
  (pc = "crashed" /\ needsFtsRebuild) => db.rows = rowsAtRebuild

\* the slugs of the catalog's non-directory resources
DocumentSlugs == {SlugOf(RESOURCE_INDEX[i].uri) :
                    i \in {j \in 1..Len(RESOURCE_INDEX) : ~RESOURCE_INDEX[j].isDirectory}}

\* C2: after a start-up whose rebuild ran to completion, the store holds exactly one
\* row for each non-directory catalog resource, keyed by its slug, and no other row.
C2_StoreMatchesCatalog ==
  (pc \in {"connect", "serving"} /\ needsFtsRebuild) =>
    /\ \A slug \in DocumentSlugs :
         Cardinality({i \in 1..Len(db.rows) : db.rows[i].uri = slug}) = 1
    /\ \A i \in 1..Len(db.rows) : db.rows[i].uri \in DocumentSlugs

\* C3: a search repeated with the same (query, path, limit) right after it was
\* answered returns the same results and runs no statement on the store.
C3_RepeatServedFromCache ==
  [][(lastCall'.op = "search" /\ lastCall'.repeat /\ ~lastCall.isError /\ ~lastCall'.isError)
       => (lastCall'.results = lastCall.results /\ lastCall'.statements = 0)]_vars

\* every whitespace-separated term is empty once the reserved characters are removed
AllTermsEmpty(query) ==
  \A i \in 1..Len(query) :
    query[i] \in {" ", "\t", "\n"} \/ query[i] \in {"\"", "*", "^", "(", ")", ":"}

\* C6: a query whose terms are all empty after cleaning gets the empty result list,
\* no error, and no statement is run on the store.
C6_EmptyQueryNoStore ==
  (lastCall.op = "search" /\ AllTermsEmpty(lastCall.input.query)) =>
    /\ lastCall.results = <<>>
    /\ ~lastCall.isError
    /\ lastCall.statements = 0

C6_Witness ==
  /\ lastCall.op = "search"
  /\ lastCall.input.query = <<":", " ">>
  /\ Len(db.rows) > 1
  /\ lastCall.results = <<>>

\* the rows that match the query and whose slug starts with the literal string p
Qualifying(rows, query, p) ==
  {i \in 1..Len(rows) :
     /\ FtsMatch(RowHits(rows[i], FtsPhrases(sanitizeFtsQuery(query))))
     /\ StartsWith(rows[i].uri, p)}

\* the rank the result list shows for a row (higher is better: bm25 negated)
ShownScore(rows, query, i) ==
  0 - Bm25(RowHits(rows[i], FtsPhrases(sanitizeFtsQuery(query))))

\* C7: for a non-empty sanitized query, search returns the n best-ranked rows (all
\* when fewer qualify), best first, taken only from the rows that match the query
\* and whose slug starts with the path filter compared as a literal string.
C7_PathFilterLiteral ==
  (lastCall.op = "search" /\ ~lastCall.isError
     /\ sanitizeFtsQuery(lastCall.input.query) # <<>>) =>
    LET q == lastCall.input.query
        res == lastCall.results
        qual == Qualifying(db.rows, q, lastCall.input.path)
        n == lastCall.input.limit
    IN /\ Len(res) = (IF Cardinality(qual) < n THEN Cardinality(qual) ELSE n)
       /\ \E pick \in [1..Len(res) -> qual] :
            /\ \A k, l \in 1..Len(res) : k # l => pick[k] # pick[l]
            /\ \A k \in 1..Len(res) :
                 /\ res[k].uri = SCHEME \o db.rows[pick[k]].uri
                 /\ res[k].score = ShownScore(db.rows, q, pick[k])
            /\ \A k \in 1..(Len(res) - 1) : res[k].score >= res[k + 1].score
            /\ \A i \in qual \ {pick[k] : k \in 1..Len(res)} :
                 \A k \in 1..Len(res) : ShownScore(db.rows, q, i) <= res[k].score

\* the catalog entries list is to return: not directories, slug starting with c
RECURSIVE Listable(_, _)
Listable(m, c) ==
  IF m = <<>> THEN <<>>
  ELSE (IF ~Head(m).isDirectory /\ StartsWith(SlugOf(Head(m).uri), c)
        THEN <<[uri |-> Head(m).uri, title |-> Head(m).name,
                description |-> Head(m).description]>>
        ELSE <<>>) \o Listable(Tail(m), c)

\* C8: list returns exactly the first n (all, when fewer exist) catalog entries, in
\* catalog order, that are not directories and whose slug starts with c, projected
\* to (uri, title, description); never more than n entries.
C8_ListFirstN ==
  lastCall.op = "list" =>
    LET all == Listable(RESOURCE_INDEX, lastCall.input.category)
        n == lastCall.input.limit
    IN lastCall.results = SubSeq(all, 1, IF n < Len(all) THEN n ELSE Len(all))

\* the flags the caller's call runs with (the handler's default is 'gi')
CallerFlags(input) == IF input.flags[1] THEN input.flags[2] ELSE <<"g", "i">>

\* the number of matches of the pattern in a resource's file, as the caller's flags
\* make it match (i: letters without case; y: only the run of matches that starts
\* the content)
MatchTotal(r, input) ==
  Len(MatchesFrom(Content(r.filePath), input.pattern, CallerFlags(input), 1))

\* the catalog positions grep is to report: documents under the path filter whose
\* file can be read and matches at least once
GrepHits(input) ==
  {i \in 1..Len(RESOURCE_INDEX) :
     /\ ~RESOURCE_INDEX[i].isDirectory
     /\ RESOURCE_INDEX[i].filePath # <<>>
     /\ RESOURCE_INDEX[i].filePath \notin unreadable
     /\ StartsWith(SlugOf(RESOURCE_INDEX[i].uri), input.path)
     /\ MatchTotal(RESOURCE_INDEX[i], input) > 0}

\* C9: whatever the flags (with or without g, or empty), grep returns only
\* non-directory catalog resources whose content matches at least once, each with
\* score equal to the total number of matches, sorted by descending score and then
\* truncated to limit.
C9_GrepScoresAllMatches ==
  (lastCall.op = "grep" /\ ~lastCall.isError) =>
    LET input == lastCall.input
        res == lastCall.results
        hits == GrepHits(input)
        n == input.limit
    IN /\ Len(res) = (IF Cardinality(hits) < n THEN Cardinality(hits) ELSE n)
       /\ \E pick \in [1..Len(res) -> hits] :
            /\ \A k, l \in 1..Len(res) : k # l => pick[k] # pick[l]
            /\ \A k \in 1..Len(res) :
                 /\ res[k].uri = RESOURCE_INDEX[pick[k]].uri
                 /\ res[k].score = MatchTotal(RESOURCE_INDEX[pick[k]], input)
            /\ \A k \in 1..(Len(res) - 1) : res[k].score >= res[k + 1].score
            /\ \A i \in hits \ {pick[k] : k \in 1..Len(res)} :
                 \A k \in 1..Len(res) :
                   MatchTotal(RESOURCE_INDEX[i], input) <= res[k].score

\* a call without g in its flags is answered with a resource that matches twice
C9_Witness ==
  /\ lastCall.op = "grep"
  /\ lastCall.input.flags = <<TRUE, <<>>>>
  /\ lastCall.input.limit = 1
  /\ Len(lastCall.results) = 1
  /\ lastCall.results[1].score = 2
  /\ Cardinality(GrepHits(lastCall.input)) > 1

\* C10: for an input whose normalized slug is not a key of the catalog, read
\* answers isError with a message that contains the caller's input; for a slug whose
\* entry is a directory or has no file, the message says it is not a document; in
\* both cases no file is read and no document text is returned.
C10_ReadErrors ==
  (lastCall.op = "read" /\ ~normalizeSlug(lastCall.input.path).threw) =>
    LET key == normalizeSlug(lastCall.input.path).key
        input == lastCall.input.path
    IN /\ ~MapHas(RESOURCE_INDEX, key) =>
            /\ lastCall.isError
            /\ IndexOf(lastCall.text, <<"n","o","t"," ","f","o","u","n","d">>) > 0
            /\ IndexOf(lastCall.text, input) > 0
            /\ lastCall.filesRead = {}
       /\ (MapHas(RESOURCE_INDEX, key)
             /\ (MapGet(RESOURCE_INDEX, key).isDirectory
                   \/ MapGet(RESOURCE_INDEX, key).filePath = <<>>)) =>
            /\ lastCall.isError
            /\ IndexOf(lastCall.text, <<"i","s"," ","n","o","t"," ","a"," ","d","o","c","u","m","e","n","t">>) > 0
            /\ IndexOf(lastCall.text, input) > 0
            /\ lastCall.filesRead = {}

\* a directory of the catalog is asked for
C10_Witness ==
  /\ lastCall.op = "read"
  /\ lastCall.input.path = GUIDES
  /\ MapHas(RESOURCE_INDEX, SCHEME \o GUIDES)
  /\ MapGet(RESOURCE_INDEX, SCHEME \o GUIDES).isDirectory
  /\ lastCall.isError

----------------------------------------------------------------------------
\* Claims about SimpleCache

\* C4: get(k) returns the value of the latest set(k, v) when the time of the get
\* is not later than that set's time plus the TTL and no clear happened since;
\* otherwise it returns undefined, and the map then holds no entry for k.
C4_GetLatestUnexpired ==
  cacheOut.op = "get" =>
    LET live == {e \in lastSet : e.key = cacheOut.key /\ cacheOut.at <= e.time + CacheTtl}
    IN /\ live # {} => \E e \in live : cacheOut.value = <<e.value>>
       /\ live = {} => /\ cacheOut.value = UNDEFINED
                       /\ CacheEntryOf(cache, cacheOut.key) = {}

\* a get exactly at the expiry time still returns the value
C4_Witness ==
  /\ cacheOut.op = "get"
  /\ cacheOut.value # UNDEFINED
  /\ \E e \in lastSet : e.key = cacheOut.key /\ cacheOut.at = e.time + CacheTtl

----------------------------------------------------------------------------
\* Claims about search through the Result Cache

----------------------------------------------------------------------------
\* Claims about read, failures and start-up (second group)

\* C11: an input to read that contains '://' is rejected with the message that asks
\* for a documentation slug; the catalog is not looked up and no file is read, even
\* when the input is the uri of an existing resource.
C11_UriRejected ==
  (lastCall.op = "read" /\ IndexOf(lastCall.input.path, <<":", "/", "/">>) > 0) =>
    /\ lastCall.isError
    /\ IndexOf(lastCall.text, <<"U","s","e"," ","d","o","c","u","m","e","n","t","a","t","i","o","n"," ","s","l","u","g","s">>) > 0
    /\ lastCall.lookups = 0
    /\ lastCall.filesRead = {}

\* read is called with the uri of a document of the catalog
C11_Witness ==
  /\ lastCall.op = "read"
  /\ lastCall.input.path = SCHEME \o <<"a">>
  /\ MapHas(RESOURCE_INDEX, SCHEME \o <<"a">>)
  /\ ~MapGet(RESOURCE_INDEX, SCHEME \o <<"a">>).isDirectory
  /\ lastCall.isError

\* the text of a file without its leading front-matter block: what follows the
\* closing '---' line when the content begins with a '---' line and the block is
\* closed, else the content itself
WithoutFrontmatter(content) ==
  LET fence == <<"-", "-", "-">>
      close == IF StartsWith(content, fence \o <<"\n">>)
               THEN IndexOf(SubSeq(content, 4, Len(content)), <<"\n">> \o fence) ELSE 0
  IN IF close = 0 THEN content
     ELSE SubSeq(content, 3 + close + 4, Len(content))

\* C12: for a catalog slug with a backing file, read returns the text of the file
\* with a leading '---'-delimited front-matter block removed (with or without the
\* line break that follows the block), and the unchanged text when there is none.
C12_ReadStripsFrontmatter ==
  (lastCall.op = "read" /\ ~lastCall.isError) =>
    LET key == normalizeSlug(lastCall.input.path).key
        body == WithoutFrontmatter(Content(MapGet(RESOURCE_INDEX, key).filePath))
    IN lastCall.text = body
         \/ (body # <<>> /\ Head(body) = "\n" /\ lastCall.text = Tail(body))

\* C13: a grep whose pattern is not a valid regular expression is answered with
\* isError and a message that names the pattern; no resource file is read, the
\* process goes on, and the server stays ready for the next calls.
C13_InvalidPatternReported ==
  (lastCall.op = "grep" /\ RegExpThrows(lastCall.input.pattern)) =>
    /\ lastCall.isError
    /\ IndexOf(lastCall.text, <<"I","n","v","a","l","i","d"," ","r","e","g","u","l","a","r"," ","e","x","p","r","e","s","s","i","o","n",":"," ">> \o lastCall.input.pattern) > 0
    /\ lastCall.results = <<>>
    /\ lastCall.filesRead = {}
    /\ pc = "serving"

\* the pattern '(' is grepped in a catalog that has documents to scan
C13_Witness ==
  /\ lastCall.op = "grep"
  /\ lastCall.input.pattern = <<"(">>
  /\ GrepFilesRead(RESOURCE_INDEX, lastCall.input.path) # {}
  /\ lastCall.isError

\* the read call being answered meets a failure: no slug, a uri, an unknown slug,
\* a slug that is not a document, or a file that cannot be read
ReadFails(input) ==
  LET n == normalizeSlug(input)
  IN \/ n.threw
     \/ ~MapHas(RESOURCE_INDEX, n.key)
     \/ MapGet(RESOURCE_INDEX, n.key).isDirectory
     \/ MapGet(RESOURCE_INDEX, n.key).filePath = <<>>
     \/ MapGet(RESOURCE_INDEX, n.key).filePath \in unreadable

\* C14: every failure inside search, grep, read or list (a failing store statement,
\* an invalid pattern, an unknown or non-document slug, a file that cannot be read)
\* comes back as a result with the error flag and a text message that begins with
\* the operation's error prefix; nothing is thrown past the handler and the
\* server stays in its serving state.
C14_FailuresReturned ==
  lastCall.op # "none" =>
    /\ pc = "serving"
    /\ lastCall.isError => lastCall.text # <<>>
    /\ (lastCall.op = "search" /\ lastCall.storeFailed) =>
         lastCall.isError /\ StartsWith(lastCall.text, <<"S","e","a","r","c","h"," ","e","r","r","o","r",":"," ">>)
    /\ (lastCall.op = "grep" /\ RegExpThrows(lastCall.input.pattern)) =>
         lastCall.isError /\ StartsWith(lastCall.text, <<"G","r","e","p"," ","e","r","r","o","r",":"," ">>)
    /\ (lastCall.op = "read" /\ ReadFails(lastCall.input.path)) =>
         lastCall.isError /\ StartsWith(lastCall.text, <<"R","e","a","d"," ","e","r","r","o","r",":"," ">>)
    /\ lastCall.op = "list" => ~lastCall.isError

\* read is asked for a document whose file cannot be read
C14_Witness ==
  /\ lastCall.op = "read"
  /\ lastCall.filesRead # {}
  /\ lastCall.filesRead \subseteq unreadable
  /\ lastCall.isError

\* start-up has completed: the catalog is built and the transport connected or
\* about to be
StartupDone == pc \in {"connect", "serving"}

\* C15: when start-up finds a store whose schema marker is absent or below
\* SCHEMA_VERSION, and at least one document is indexable, then after start-up the
\* marker reads SCHEMA_VERSION, none of the old rows remains, and the store has rows.
C15_StaleSchemaRebuilt ==
  (StartupDone /\ dbAtStart.exists /\ dbAtStart.version < SCHEMA_VERSION
     /\ \E i \in 1..Len(RESOURCE_INDEX) : ~RESOURCE_INDEX[i].isDirectory) =>
    /\ db.version = SCHEMA_VERSION
    /\ \A i \in 1..Len(db.rows) : \A j \in 1..Len(dbAtStart.rows) :
         db.rows[i] # dbAtStart.rows[j]
    /\ Len(db.rows) > 0

\* start-up on a store with rows under an older marker has completed
C15_Witness ==
  /\ StartupDone
  /\ dbAtStart.exists
  /\ dbAtStart.version < SCHEMA_VERSION
  /\ dbAtStart.rows # <<>>
  /\ Len(db.rows) > 1

\* C16: once start-up has completed, no search, grep, read or list call adds,
\* removes or changes a catalog entry or a row of the full-text store (so a read
\* of the same slug finds the same entry and, the file being unchanged, the same
\* text).
C16_ToolsChangeNothing ==
  [][pc = "serving" => (RESOURCE_INDEX' = RESOURCE_INDEX /\ db' = db /\ fs' = fs)]_vars

\* a document has been read from a catalog with documents and a store with rows
C16_Witness ==
  /\ lastCall.op = "read"
  /\ ~lastCall.isError
  /\ Len(db.rows) > 0
  /\ Len(RESOURCE_INDEX) > 1

\* the candidates as the claim words them: the version without its build
\* metadata, then that value without its pre-release suffix, no duplicates
ExpectedCandidates(version) ==
  LET first == Before(version, "+")
      second == Before(first, "-")
  IN IF second = first THEN <<first>> ELSE <<first, second>>

\* C17: the download tries the candidates in order (the version without the part
\* after '+', then that value without the part after '-', no duplicates), stops
\* at the first candidate that downloads, and when every candidate fails start-up
\* fails with the failure of the last candidate.
C17_DownloadFallback ==
  LET expected == ExpectedCandidates(dl.version)
  IN /\ StartsWith(expected, dl.tried)
     /\ dl.ok # 0 => Len(dl.tried) = dl.ok
     /\ dl.pc = "failed" =>
          /\ dl.tried = expected
          /\ dl.ok = 0
          /\ dl.lastError = <<expected[Len(expected)]>>
     /\ (dl.tried = expected /\ dl.ok = 0) => dl.pc \in {"download1", "download2", "failed"}

\* the first candidate failed and the second one downloaded
C17_Witness ==
  /\ dl.ok = 2
  /\ dl.tried = <<<<"1", "-", "c">>, <<"1">>>>
  /\ dl.pc \in {"check", "final", "ready", "exit1"}

\* the conditions under which the claim has start-up replace the rows
RebuildDue ==
  \/ ~dbAtStart.exists
  \/ dbAtStart.version < SCHEMA_VERSION
  \/ Len(dbAtStart.rows) = 0

\* C18: start-up rewrites the rows of the store exactly when it found no store
\* file, a marker that is absent or below SCHEMA_VERSION, or a store without rows;
\* otherwise every row is left as it was found, whatever the document files are now.
C18_RebuildExactlyWhenDue ==
  /\ (pc \notin {"initDb", "parse", "build"} /\ nav.error = <<>>) =>
       (needsFtsRebuild <=> RebuildDue)
  /\ ~RebuildDue => db.rows = dbAtStart.rows
  /\ (RebuildDue /\ StartupDone) =>
        \A i \in 1..Len(db.rows) : \A j \in 1..Len(dbAtStart.rows) :
           db.rows[i] # dbAtStart.rows[j]

\* start-up has completed on a current store with a row of a document that is no
\* longer there, while the catalog holds documents the store has no row for
C18_Witness ==
  /\ StartupDone
  /\ ~RebuildDue
  /\ db.rows = <<OldRow>>
  /\ \E i \in 1..Len(RESOURCE_INDEX) :
       /\ ~RESOURCE_INDEX[i].isDirectory
       /\ SlugOf(RESOURCE_INDEX[i].uri) # OldRow.uri

----------------------------------------------------------------------------
\* Claims about the navigation file and the navigation pass

\* the four candidates in the order the claim gives them
SlugCandidates(slug) ==
  << DOCS_DIR \o <<"/">> \o slug \o <<".","m","d">>,
     DOCS_DIR \o <<"/">> \o slug \o <<".","m","d","x">>,
     DOCS_DIR \o <<"/">> \o slug \o <<"/","i","n","d","e","x",".","m","d">>,
     DOCS_DIR \o <<"/">> \o slug \o <<"/","i","n","d","e","x",".","m","d","x">> >>

\* the positions of the candidates of slug that exist
Existing(slug) == {k \in 1..4 : ExistsSync(fs, SlugCandidates(slug)[k])}

FlatParsed == pc # "parse" /\ nav.docsJson = <<>> /\ nav.navTs # <<>> /\ nav.navTs[1].ok

\* the title of the nearest divider before position k of items, '' when there is none
NearestDivider(items, k) ==
  LET before == {j \in 1..(k - 1) : items[j].type = "divider"}
  IN IF before = {} THEN <<>>
     ELSE items[CHOOSE j \in before : \A h \in before : h <= j].title

\* C20: after a flat navigation list is parsed, every page item has a descriptor,
\* and the category of a descriptor is the title of the nearest divider before the
\* page item it was made from (the last item with that slug), or '' when no
\* divider comes before that item.
C20_FlatCategoryFromDivider ==
  FlatParsed =>
    LET items == nav.navTs[1].items
        pageAt(slug) == {k \in 1..Len(items) : items[k].type = "page" /\ items[k].slug = slug}
    IN /\ \A k \in 1..Len(items) :
            items[k].type = "page" => \E i \in 1..Len(PAGE_MAP) : PAGE_MAP[i].slug = items[k].slug
       /\ \A i \in 1..Len(PAGE_MAP) :
            /\ pageAt(PAGE_MAP[i].slug) # {}
            /\ PAGE_MAP[i].divider =
                 NearestDivider(items, CHOOSE k \in pageAt(PAGE_MAP[i].slug) :
                                         \A h \in pageAt(PAGE_MAP[i].slug) : h <= k)

\* a page before the first divider got category '', the page after it the
\* divider's title
C20_Witness ==
  /\ FlatParsed
  /\ Len(PAGE_MAP) = 2
  /\ PAGE_MAP[1].divider = <<>>
  /\ PAGE_MAP[2].divider = <<"D">>

----------------------------------------------------------------------------
\* Claims about the choice of the navigation file, its failures and the docs
\* directory (third group)

\* docsJson.navigation.tabs names the page at path under tab and group
FromDocsJson(page) ==
  LET tabs == nav.docsJson[1].tabs
  IN \E t \in 1..Len(tabs) : \E g \in 1..Len(tabs[t].groups) :
       \E q \in 1..Len(tabs[t].groups[g].pages) :
         /\ tabs[t].groups[g].pages[q] \in {page.slug, <<"/">> \o page.slug}
         /\ page.divider = tabs[t].tab \o <<" ","/"," ">> \o tabs[t].groups[g].group
         /\ page.description = <<>>

\* nav.items holds a page item with the descriptor's slug, title and description
FromNavTs(page) ==
  LET items == nav.navTs[1].items
  IN \E k \in 1..Len(items) :
       /\ items[k].type = "page"
       /\ items[k].slug = page.slug
       /\ items[k].title = page.title
       /\ items[k].description = page.description

\* C21: parseNavigation opens at most one navigation file; when docs.json exists
\* nav.ts is never opened and every page descriptor is made from docs.json, and
\* nav.ts is opened, and descriptors made from it, only when docs.json is absent.
C21_SingleNavigationFile ==
  pc # "parse" =>
    /\ Cardinality(nav.loaded) <= 1
    /\ NAV_TS \in nav.loaded => nav.docsJson = <<>>
    /\ nav.docsJson # <<>> =>
         /\ nav.loaded = {DOCS_JSON}
         /\ \A i \in 1..Len(PAGE_MAP) : FromDocsJson(PAGE_MAP[i])
    /\ (nav.docsJson = <<>> /\ nav.navTs # <<>>) =>
         /\ nav.loaded = {NAV_TS}
         /\ \A i \in 1..Len(PAGE_MAP) : FromNavTs(PAGE_MAP[i])

\* both files exist and parse, nav.ts describes page 'a' under divider D, and the
\* descriptors came out of docs.json
C21_Witness ==
  /\ pc = "nav"
  /\ nav.docsJson # <<>> /\ nav.docsJson[1].ok
  /\ nav.navTs # <<>> /\ nav.navTs[1].ok
  /\ Len(PAGE_MAP) = 2
  /\ PAGE_MAP[1].divider = <<"T"," ","/"," ","G">>
  /\ nav.loaded = {DOCS_JSON}

\* the navigation file parseNavigation consults, '' when there is none
Consulted ==
  IF nav.docsJson # <<>> THEN DOCS_JSON
  ELSE IF nav.navTs # <<>> THEN NAV_TS ELSE <<>>

\* what the consulted file threw
ConsultedCause == IF nav.docsJson # <<>> THEN nav.docsJson[1].cause ELSE nav.navTs[1].cause

ConsultedBroken ==
  \/ nav.docsJson # <<>> /\ ~nav.docsJson[1].ok
  \/ nav.docsJson = <<>> /\ nav.navTs # <<>> /\ ~nav.navTs[1].ok

\* start-up ended in parseNavigation: no descriptor, no resource, no call
ParseFailedCleanly ==
  /\ pc = "crashed"
  /\ PAGE_MAP = <<>>
  /\ RESOURCE_INDEX = <<>>
  /\ lastCall = NoCall
  /\ nav.error # <<>>
  /\ IndexOf(nav.error[1], <<"F","a","i","l","e","d"," ","t","o"," ","p","a","r","s","e"," ">> \o Consulted) = 1

\* C22 as claimed: when the consulted navigation file cannot be parsed, start-up
\* ends with no page mapping, no catalog resource and no tool call served, and
\* the error names the file and the cause.
C22_ParseFailureNamesCause ==
  (pc \notin {"initDb", "parse"} /\ ConsultedBroken) =>
    /\ ParseFailedCleanly
    /\ IndexOf(nav.error[1], ConsultedCause.text) > 0

\* C22 as amended: when the consulted navigation file cannot be parsed, start-up
\* ends with no page mapping, no catalog resource and no tool call served; the
\* error names the file, and names the cause when what was thrown is an Error.
C22_ParseFailureNamesFile ==
  (pc \notin {"initDb", "parse"} /\ ConsultedBroken) =>
    /\ ParseFailedCleanly
    /\ ConsultedCause.isError => IndexOf(nav.error[1], ConsultedCause.text) > 0
    /\ ~ConsultedCause.isError => nav.error[1] = <<"F","a","i","l","e","d"," ","t","o"," ","p","a","r","s","e"," ">> \o Consulted

\* docs.json did not parse although a good nav.ts lies beside it
C22_Witness ==
  /\ pc = "crashed"
  /\ nav.docsJson # <<>> /\ ~nav.docsJson[1].ok
  /\ nav.navTs # <<>> /\ nav.navTs[1].ok
  /\ db.exists
  /\ nav.error = << <<"F","a","i","l","e","d"," ","t","o"," ","p","a","r","s","e"," ","d","o","c","s",".","j","s","o","n",":"," ","U","n","e","x","p","e","c","t","e","d">> >>

\* C23: the module code goes past initializeDocsDir only with docs.json or nav.ts
\* in the docs directory; when neither is there at the check that follows the
\* first download, the directory is removed and downloaded again, once; and when
\* neither is there after that, the process exits with status 1 and nothing is
\* indexed or served.
C23_NavigationFileOrExit ==
  /\ [](/\ pc # "docs" => (dl.pc = "ready" /\ dl.dir = "nav")
        /\ dl.pc = "ready" => dl.dir = "nav"
        /\ dl.again <= 1
        /\ dl.pc \in {"start", "download1", "check"} => dl.again = 0
        /\ dl.pc \in {"download2", "final", "exit1"} => dl.again = 1
        /\ dl.pc = "exit1" => (dl.dir # "nav" /\ pc = "docs"))
  /\ [][/\ (dl.pc = "check" /\ dl.dir # "nav") =>
             (dl'.pc = "download2" /\ dl'.dir = "absent" /\ dl'.again = 1)
        /\ (dl.pc = "check" /\ dl.dir = "nav") => (dl'.pc = "ready" /\ dl'.again = 0)
        /\ (dl.pc = "final" /\ dl.dir # "nav") => dl'.pc = "exit1"
        /\ dl.pc = "exit1" => UNCHANGED vars]_vars

\* the directory was downloaded, removed for want of a navigation file, downloaded
\* again, still without one, and the process exited
C23_Witness ==
  /\ dl.pc = "exit1"
  /\ dl.calls = 2
  /\ dl.again = 1
  /\ dl.dir = "nonav"

----------------------------------------------------------------------------
\* Claims about SimpleCache.set, the grep scan, snippets, the order of start-up,
\* the worker and slug normalization (fourth group)

Scanned(input) ==
  {i \in 1..Len(RESOURCE_INDEX) :
     /\ ~RESOURCE_INDEX[i].isDirectory
     /\ RESOURCE_INDEX[i].filePath # <<>>
     /\ StartsWith(SlugOf(RESOURCE_INDEX[i].uri), input.path)}

\* C25: when a grep scan meets a file it cannot read, the call is still answered
\* without an error and the server keeps serving; the resource of that file is not
\* among the results, and every other scanned resource that matches is, unless
\* the limit is reached by results that score at least as high.
C25_UnreadableFileSkipped ==
  (/\ lastCall.op = "grep"
   /\ ~RegExpThrows(lastCall.input.pattern)
   /\ \E i \in Scanned(lastCall.input) : RESOURCE_INDEX[i].filePath \in unreadable) =>
    LET input == lastCall.input
        res == lastCall.results
    IN /\ ~lastCall.isError
       /\ pc = "serving"
       /\ \A k \in 1..Len(res) :
            \A i \in Scanned(input) :
              res[k].uri = RESOURCE_INDEX[i].uri => RESOURCE_INDEX[i].filePath \notin unreadable
       /\ \A i \in Scanned(input) :
            (RESOURCE_INDEX[i].filePath \notin unreadable
               /\ MatchTotal(RESOURCE_INDEX[i], input) > 0) =>
              \/ \E k \in 1..Len(res) :
                   /\ res[k].uri = RESOURCE_INDEX[i].uri
                   /\ res[k].score = MatchTotal(RESOURCE_INDEX[i], input)
              \/ /\ Len(res) = input.limit
                 /\ \A k \in 1..Len(res) : res[k].score >= MatchTotal(RESOURCE_INDEX[i], input)

\* the scan met an unreadable file before a readable one, whose match it returned
C25_Witness ==
  /\ lastCall.op = "grep"
  /\ ~lastCall.isError
  /\ \E i, j \in Scanned(lastCall.input) :
       /\ i < j
       /\ RESOURCE_INDEX[i].filePath \in unreadable
       /\ \E k \in 1..Len(lastCall.results) : lastCall.results[k].uri = RESOURCE_INDEX[j].uri

\* C26: the snippet of every search result is the content of the result's row
\* with the emphasis marker put before and after each matched term, and no
\* character of the content changed.
C26_SnippetMarksOnlyMatches ==
  (lastCall.op = "search" /\ ~lastCall.isError) =>
    \A k \in 1..Len(lastCall.results) :
      \E i \in 1..Len(db.rows) :
        /\ SCHEME \o db.rows[i].uri = lastCall.results[k].uri
        /\ lastCall.results[k].snippet =
             FtsSnippet(db.rows[i].content,
                        FtsPhrases(sanitizeFtsQuery(lastCall.input.query)),
                        <<"*", "*">>, <<"*", "*">>)

\* C27: the transport is connected only from the end of buildResourceIndex, with
\* the navigation loop and the directory walks run to their ends; a call is
\* handled only while the server is serving, and from then on no step of the
\* catalog build or of the rebuild is taken.
C27_ServesAfterBuild ==
  /\ [](/\ pc \in {"connect", "serving"} => (cursor > Len(PAGE_MAP) /\ walk = <<>>)
        /\ lastCall.op # "none" => pc = "serving")
  /\ [][/\ (pc' = "connect" /\ pc # "connect") =>
             (walk = <<>> /\ (pc = "eco" \/ (pc = "ecoStart" /\ ~ExistsSync(fs, EcosystemDir))))
        /\ (pc' = "serving" /\ pc # "serving") => pc = "connect"
        /\ lastCall' # lastCall => (pc = "serving" /\ pc' = "serving")
        /\ pc = "serving" => (pc' = "serving" /\ cursor' = cursor /\ walk' = walk
                                /\ needsFtsRebuild' = needsFtsRebuild)]_vars

\* a search is answered from a store that this start-up rebuilt with several rows
C27_Witness ==
  /\ lastCall.op = "search"
  /\ Len(lastCall.results) > 0
  /\ needsFtsRebuild
  /\ Len(db.rows) > 2
  /\ Len(RESOURCE_INDEX) > 2

----------------------------------------------------------------------------
\* Claims about the search worker

\* the reply types of the worker's protocol
ReplyTypes == {"INIT_SUCCESS", "SEARCH_RESULTS", "REBUILD_SUCCESS", "ERROR"}

\* C28: the worker posts exactly one reply for every INIT, SEARCH or
\* REBUILD_INDEX message it handled, whatever the outcome; the reply is one of
\* INIT_SUCCESS, SEARCH_RESULTS, REBUILD_SUCCESS and ERROR; and a SEARCH or a
\* REBUILD_INDEX received while no database is open is answered with ERROR.
C28_OneReplyPerMessage ==
  wmsg.type \in {"INIT", "SEARCH", "REBUILD_INDEX"} =>
    /\ Len(wreply) = 1
    /\ wreply[1].type \in ReplyTypes
    /\ (wmsg.type # "INIT" /\ ~wdb.open) => wreply[1].type = "ERROR"

\* what the in-line searchDocuments of index.ts returns for the payload of the
\* latest SEARCH on the rows the worker's store holds
InlineResults ==
  searchDocuments(wdb.rows, wmsg.payload.query, wmsg.payload.searchPath,
                  wmsg.payload.limit).results

\* C29: a SEARCH handled by the initialized worker that did not fail on the
\* store is answered with SEARCH_RESULTS carrying the list the in-line
\* searchDocuments returns for the same rows, query, path filter and limit; a
\* query that sanitizes to empty is always answered with the empty list.
C29_WorkerSearchMatchesInline ==
  (wmsg.type = "SEARCH" /\ wdb.open) =>
    /\ Len(wreply) = 1
    /\ wreply[1].type \in {"SEARCH_RESULTS", "ERROR"}
    /\ wreply[1].type = "SEARCH_RESULTS" => wreply[1].payload = InlineResults
    /\ sanitizeFtsQuery(wmsg.payload.query) = <<>> =>
         wreply = <<Reply("SEARCH_RESULTS", <<>>)>>

\* a search of the worker whose path filter left one of two matching documents
C29_Witness ==
  /\ wmsg.type = "SEARCH"
  /\ wdb.open
  /\ wreply # <<>>
  /\ wreply[1].type = "SEARCH_RESULTS"
  /\ wmsg.payload.searchPath # <<>>
  /\ wmsg.payload.limit = 2
  /\ Len(wreply[1].payload) = 1
  /\ Len(searchDocuments(wdb.rows, wmsg.payload.query, <<>>, 2).results) = 2

----------------------------------------------------------------------------
\* Claims about slug normalization

\* the slug of the key the latest read looked up
LookedUpSlug ==
  LET key == normalizeSlug(lastCall.input.path).key
  IN SubSeq(key, Len(SCHEME) + 1, Len(key))

\* C30: the slug a read is looked up under has no leading slash, no trailing
\* slash and no trailing '.md', and normalizing it again yields the same key; an
\* input without '://' that normalizeSlug refuses is answered with the error
\* 'Document slug is required'.
C30_SlugCanonical ==
  lastCall.op = "read" =>
    LET n == normalizeSlug(lastCall.input.path)
    IN /\ ~n.threw =>
            /\ LookedUpSlug # <<>>
            /\ Head(LookedUpSlug) # "/"
            /\ LookedUpSlug[Len(LookedUpSlug)] # "/"
            /\ ~EndsWith(LookedUpSlug, MD)
            /\ normalizeSlug(LookedUpSlug) = n
       /\ (n.threw /\ IndexOf(lastCall.input.path, <<":", "/", "/">>) = 0) =>
            /\ lastCall.isError
            /\ lastCall.text = <<"R","e","a","d"," ","e","r","r","o","r",":"," ">>
                 \o <<"D","o","c","u","m","e","n","t"," ","s","l","u","g"," ","i","s"," ","r","e","q","u","i","r","e","d">>

====
